---- MODULE Spec2Model ----
(***************************************************************************)
(* Token lifecycle and email gate of ghit-hub1/edoc.                       *)
(*                                                                         *)
(*   api/store-token.js   issue:    insertOne into tokens, createIndex     *)
(*   api/download.js      redeem:   findOne, deleteOne, getSignedUrl, 302  *)
(*   api/verify-email.js  validate: format check, logEmail,                *)
(*                                  isDomainAllowed, generateRedirectUrl   *)
(*                                                                         *)
(* Every handler is an async function: it runs without interruption up to  *)
(* an await on the store or the signer, and other requests run while it    *)
(* waits.  One action models one such uninterrupted piece.  Spec is the    *)
(* system with the store and the signer answering every call; the process  *)
(* is warm (the cached store handle is connected).                         *)
(*                                                                         *)
(* Strings that the code takes apart (emails, domains, the redirect        *)
(* template) are sequences of one-character strings.                       *)
(***************************************************************************)
EXTENDS Integers, Sequences, FiniteSets, TLC

(***************************************************************************)
(* Bounds of the model.                                                    *)
(***************************************************************************)
MaxIssue  == 2       \* issue requests started
MaxRedeem == 2       \* redeem requests started
MaxVerify == 2       \* validation requests started
MaxReqs   == 3       \* requests started, all kinds together
MaxTokenReqs == 4    \* the same, where only token requests are made
MaxEmailLen == 6     \* longest enumerated email of the resolver's inputs
MaxAdmin  == 2       \* administrative requests started
MaxLiveReqs == 2     \* token requests started, where progress is checked
MaxCalls  == 3       \* calls of connectToDB and connectToDatabase
MaxHolds  == 2       \* presses of the hold button
WidgetStep == 1000   \* ms that pass between two events of the widget
MaxT      == 7000    \* last instant of the widget's clock, ms
MaxDomainReqs == 3   \* administrative and validation requests together
TickMs    == 70000   \* the clock advances in steps of this many ms
MaxNow    == 100000  \* the clock stops here

(***************************************************************************)
(* Inputs.                                                                 *)
(***************************************************************************)
NoToken     == ""                    \* req.query.token absent or empty
Values      == {"abc123", "tok2"}
TokenInputs == {NoToken} \cup Values

NoEmail   == <<>>                    \* req.body.email absent or empty
EmailUp   == <<"u","@","A",".","c","o">>
EmailB    == <<"u","@","b",".","c","o">>
EmailBad  == <<"u","a",".","c","o">>
Emails    == {NoEmail, EmailUp, EmailB, EmailBad}

DomainA     == <<"a",".","c","o">>
InitDomains == {<<>>, <<DomainA>>}   \* allowed_domains when the model starts

\* emails handed to the format check and the redirect resolver on their own:
\* every string over PureAlphabet up to MaxEmailLen characters, and some
\* longer examples
PureAlphabet == {"a", "B", "@", ".", "$", "&"}
EmailAcme ==
  <<"u","s","e","r","@","m","a","i","l",".","a","c","m","e",".","c","o">>
EmailPhLabel  == <<"u","@","{","e","m","a","i","l","}",".","c","o">>
EmailPhLocal  == <<"{","d","o","m","a","i","n","}","@","a",".","c","o">>
EmailQuote    == <<"$","'","@","a",".","c","o">>
EmailDollars  == <<"$","$","@","a",".","c","o">>
EmailUpperTld == <<"u","@","x",".","c","o","m",".","B","r">>
PureExamples ==
  {EmailAcme, EmailPhLabel, EmailPhLocal, EmailQuote, EmailDollars,
   EmailUpperTld}
PureEmails ==
  UNION {[1..n -> PureAlphabet] : n \in 0..MaxEmailLen} \cup PureExamples

\* what req.body.email can be for the text email: the string itself, or
\* for some texts an array holding that one string, which
\* RegExp.prototype.test and String() read as the string
BodyTypes(email) ==
  IF email \in PureExamples THEN {"string", "array"} ELSE {"string"}

\* inputs of the administrative routes
NoDomain     == <<>>                 \* req.body.domain absent or empty
DomainUp     == <<"A",".","c","o">>
DomainB      == <<"b",".","c","o">>
DomainBad    == <<"a","_","c","o">>
AdminDomains == {NoDomain, DomainUp, DomainB, DomainBad}
\* uploaded files: "a.co\nA.co" and "b.co\r\n\na_co"
ContentDup   == <<"a",".","c","o","\n","A",".","c","o">>
ContentMixed == <<"b",".","c","o","\r","\n","\n","a","_","c","o">>
Contents     == {ContentDup, ContentMixed}
DomainLists  == {<<>>, <<DomainUp, DomainB>>}   \* req.body.domains
Views        == {"emails", "domains"}  \* req.query.view of the admin view
NoId         == 0                      \* req.body.id absent
EmailIds     == {NoId, 1, 3}           \* req.body.id
IdLists      == {<<>>, <<1, 2>>}       \* req.body.ids

Suffixes == {7, 9999}                \* values of Math.floor(Math.random() * 10000)

(***************************************************************************)
(* Program constants.                                                      *)
(***************************************************************************)
TTL_MS          == 60 * 1000
SIGN_EXPIRES_IN == 60
HOLD_MS         == 3000
OBJECT_KEY      == "Acrobat_Reader_V112.msi"
ADMIN_TOKEN     == "admin123"
REDIRECT_URL ==
  <<"h","t","t","p","s",":","/","/","{","d","o","m","a","i","n","}",".",
    "e","x","a","m","p","l","e",".","n","e","t","/","x","?","e","=",
    "{","e","m","a","i","l","}">>
PH_DOMAIN == <<"{","d","o","m","a","i","n","}">>
PH_EMAIL  == <<"{","e","m","a","i","l","}">>
MSG_NO_EMAIL    == "Please enter an email address"
MSG_BAD_FORMAT  == "Invalid email format"
MSG_NOT_ALLOWED == "Please enter your work email address for verification"
MSG_OK          == "Email validated successfully"
MSG_UNAUTHORIZED   == "Unauthorized"
MSG_NO_DOMAIN      == "Please provide a domain"
MSG_BAD_DOMAIN     == "Invalid domain format"
MSG_EXISTS         == "Domain already exists"
MSG_ADDED          == "Domain added successfully"
MSG_NO_DOMAIN_DEL  == "Please provide a domain to delete"
MSG_NOT_FOUND      == "Domain not found"
MSG_DELETED        == "Domain deleted successfully"
MSG_NO_DOMAINS_DEL == "Please provide domains to delete"
MSG_NONE_DELETED   == "No domains were deleted"
MSG_BULK_DELETED   == "domains deleted successfully"
MSG_NOTHING        == "No domains to delete"
MSG_ALL_DELETED    == "All domains deleted successfully"
MSG_PROCESSED      == "Processed"
MSG_NO_EMAIL_ID    == "Please provide an email ID to delete"
MSG_EMAIL_NOT_FOUND == "Email log not found"
MSG_EMAIL_DELETED  == "Email log deleted successfully"
MSG_NO_EMAIL_IDS   == "Please provide email IDs to delete"
MSG_NO_EMAILS_DELETED == "No email logs were deleted"
MSG_EMAILS_DELETED == "email logs deleted successfully"
MSG_NO_EMAILS      == "No email logs to delete"
MSG_ALL_EMAILS_DELETED == "All email logs deleted successfully"

\* req.query.token of an administrative request: the right one or another
WRONG_TOKEN == "guess"
AdminTokens == {ADMIN_TOKEN, WRONG_TOKEN}

VARIABLES
  now,        \* Date.now(), ms
  tokens,     \* collection "tokens", in natural order
  ttlIndex,   \* the TTL index on expireAt exists
  domains,    \* collection allowed_domains, in natural order
  emails,     \* collection emails (the log), in natural order
  issues,     \* store-token.js handler invocations
  redeems,    \* download.js handler invocations
  verifies,   \* verify-email.js validate-route invocations
  admins,     \* verify-email.js administrative-route invocations
  listed,     \* history: domains whose last completed add or delete was an add
  fn,         \* one application of generateRedirectUrl: input and result
  conn,       \* utils/mongodb.js and verify-email.js connection caches, calls
  widget      \* HumanVerification.vue press-and-hold button

vars == <<now, tokens, ttlIndex, domains, emails, issues, redeems, verifies,
          admins, listed, fn, conn, widget>>

TotalReqs == Len(issues) + Len(redeems) + Len(verifies)

(***************************************************************************)
(* The store's collection operations, as the driver documents them:        *)
(* findOne returns and deleteOne removes the first document, in natural    *)
(* order, that matches the filter.                                         *)
(***************************************************************************)
Matches(coll, tok) == {i \in 1..Len(coll) : coll[i].token = tok}

FirstMatch(coll, tok) ==
  CHOOSE i \in Matches(coll, tok) : \A j \in Matches(coll, tok) : i <= j

RemoveAt(coll, i) == SubSeq(coll, 1, i - 1) \o SubSeq(coll, i + 1, Len(coll))

\* tokens.findOne({ token }): <<>> for null, <<doc>> for a document
findOne(coll, tok) ==
  IF Matches(coll, tok) = {} THEN <<>> ELSE <<coll[FirstMatch(coll, tok)]>>

deleteOne_noop(coll, tok) == coll

deleteOne_last(coll, tok) ==
  IF Matches(coll, tok) = {} THEN coll
  ELSE RemoveAt(coll, CHOOSE i \in Matches(coll, tok) :
                        \A j \in Matches(coll, tok) : j <= i)

deleteOne_all(coll, tok) ==
  LET Other(doc) == doc.token # tok IN SelectSeq(coll, Other)

\* tokens.deleteOne({ token })
deleteOne(coll, tok) ==
  IF Matches(coll, tok) = {} THEN coll
  ELSE RemoveAt(coll, FirstMatch(coll, tok))

insertOne_twice(coll, doc) == Append(Append(coll, doc), doc)

\* tokens.insertOne(doc)
insertOne(coll, doc) == Append(coll, doc)

ExpireAt_secs(t) == t + 60

\* new Date(Date.now() + 60 * 1000)
ExpireAt(t) == t + TTL_MS

\* the document store-token.js inserts; _id is unique per insert
TokenDoc(id, tok, t) ==
  [id |-> id, token |-> tok, createdAt |-> t, expireAt |-> ExpireAt(t)]

\* both connection caches empty (let client; let db; cachedClient = null;
\* cachedDb = null), no client constructed, no call made; 0 stands for
\* undefined and null, clients are numbered as they are constructed
ConnInit ==
  [client |-> 0, db |-> 0, cachedClient |-> 0, cachedDb |-> 0,
   made |-> 0, connected |-> {}, calls |-> <<>>]

\* the button untouched: no timer, no animation frame, progress 0
\* the press-and-hold widget after data(): timerRef and animationRef null
\* (0), progress 0; timers and frames are the pending setTimeout and
\* requestAnimationFrame callbacks, t is Date.now(); holding, hold, since and
\* emitted are history: whether the button is held, the number of the hold,
\* when it began, and the 'verification-complete' events so far
WidgetInit ==
  [t |-> 0, timerRef |-> 0, animationRef |-> 0, progress |-> 0,
   timers |-> {}, frames |-> {}, nextId |-> 1,
   holding |-> FALSE, hold |-> 0, since |-> 0, emitted |-> <<>>]

\* no application of generateRedirectUrl under way
FnIdle ==
  [type |-> "string", email |-> <<>>, state |-> "idle", domain |-> <<>>,
   url |-> <<>>]

(***************************************************************************)
(* Initial state: no request yet, no token, no TTL index yet (the issue    *)
(* handler creates it), an allowlist the administrator has filled or not.  *)
(***************************************************************************)
Init ==
  /\ now = 0
  /\ tokens = <<>>
  /\ ttlIndex = FALSE
  /\ domains \in InitDomains
  /\ emails = <<>>
  /\ issues = <<>>
  /\ redeems = <<>>
  /\ verifies = <<>>
  /\ admins = <<>>
  /\ listed = {domains[i] : i \in 1..Len(domains)}
  /\ fn = FnIdle
  /\ conn = ConnInit
  /\ widget = WidgetInit

(***************************************************************************)
(* Time and the store's TTL monitor.  The monitor removes documents whose  *)
(* expireAt has passed, at times of its own choosing, once the index       *)
(* { expireAt: 1 }, expireAfterSeconds: 0 exists.                          *)
(***************************************************************************)
Tick ==
  /\ now + TickMs <= MaxNow
  /\ now' = now + TickMs
  /\ UNCHANGED <<tokens, ttlIndex, domains, emails, issues, redeems, verifies>>
  /\ UNCHANGED <<admins, listed, fn, conn, widget>>

Sweep_late ==
  /\ ttlIndex
  /\ \E i \in 1..Len(tokens) :
       /\ tokens[i].expireAt + TickMs <= now
       /\ tokens' = RemoveAt(tokens, i)
  /\ UNCHANGED <<now, ttlIndex, domains, emails, issues, redeems, verifies>>
  /\ UNCHANGED <<admins, listed, fn, conn, widget>>

Sweep ==
  /\ ttlIndex
  /\ \E i \in 1..Len(tokens) :
       /\ tokens[i].expireAt <= now
       /\ tokens' = RemoveAt(tokens, i)
  /\ UNCHANGED <<now, ttlIndex, domains, emails, issues, redeems, verifies>>
  /\ UNCHANGED <<admins, listed, fn, conn, widget>>

(***************************************************************************)
(* store-token.js handler (issue).                                         *)
(***************************************************************************)
\* lines 4-10: read the token, 400 when missing, else go on to the store
IssueStart(tok) ==
  /\ Len(issues) < MaxIssue
  /\ issues' = Append(issues,
       IF tok = NoToken
       THEN [token |-> tok, pc |-> "done", status |-> 400, ops |-> <<>>]
       ELSE [token |-> tok, pc |-> "insert", status |-> 0, ops |-> <<>>])
  /\ UNCHANGED <<now, tokens, ttlIndex, domains, emails, redeems, verifies>>
  /\ UNCHANGED <<admins, listed, fn, conn, widget>>

\* lines 13-17: await tokens.insertOne({...})
IssueInsert(i) ==
  /\ issues[i].pc = "insert"
  /\ tokens' = insertOne(tokens, TokenDoc(i, issues[i].token, now))
  /\ issues' = [issues EXCEPT ![i].pc = "index",
                              ![i].ops = Append(@, "insertOne")]
  /\ UNCHANGED <<now, ttlIndex, domains, emails, redeems, verifies>>
  /\ UNCHANGED <<admins, listed, fn, conn, widget>>

\* lines 19-21: await tokens.createIndex(...); res.status(204).end()
IssueIndex(i) ==
  /\ issues[i].pc = "index"
  /\ ttlIndex' = TRUE
  /\ issues' = [issues EXCEPT ![i].pc = "done", ![i].status = 204,
                              ![i].ops = Append(@, "createIndex")]
  /\ UNCHANGED <<now, tokens, domains, emails, redeems, verifies>>
  /\ UNCHANGED <<admins, listed, fn, conn, widget>>

\* line 10 or lines 13-17 when connectToDB or insertOne rejects: the handler
\* has no try/catch, the runtime answers 500, nothing was written
IssueInsertFail(i) ==
  /\ issues[i].pc = "insert"
  /\ \E failure \in {"connect!", "insertOne!"} :
       issues' = [issues EXCEPT ![i].pc = "done", ![i].status = 500,
                                ![i].ops = Append(@, failure)]
  /\ UNCHANGED <<now, tokens, ttlIndex, domains, emails, redeems, verifies>>
  /\ UNCHANGED <<admins, listed, fn, conn, widget>>

\* line 19 when createIndex rejects: the runtime answers 500; the record
\* that line 13 inserted stays
IssueIndexFail(i) ==
  /\ issues[i].pc = "index"
  /\ issues' = [issues EXCEPT ![i].pc = "done", ![i].status = 500,
                              ![i].ops = Append(@, "createIndex!")]
  /\ UNCHANGED <<now, tokens, ttlIndex, domains, emails, redeems, verifies>>
  /\ UNCHANGED <<admins, listed, fn, conn, widget>>

(***************************************************************************)
(* download.js handler (redeem).  Fields at and seen are history: the      *)
(* clock when the request arrived and what had already completed then.     *)
(***************************************************************************)
SignedUrl(suffix) ==
  [key |-> OBJECT_KEY, suffix |-> suffix, expiresIn |-> SIGN_EXPIRES_IN]

\* a redeem request for tok has already been answered 302
RedeemedBefore(tok) ==
  \E r \in 1..Len(redeems) :
    redeems[r].token = tok /\ redeems[r].status = 302

\* a validation has already been answered with the domain rejection
RejectedBefore ==
  \E k \in 1..Len(verifies) :
    verifies[k].pc = "done" /\ verifies[k].message = MSG_NOT_ALLOWED

\* the signing of a redeem request for tok has already failed
SignFailedBefore(tok) ==
  \E r \in 1..Len(redeems) :
    /\ redeems[r].token = tok
    /\ redeems[r].ops # <<>>
    /\ redeems[r].ops[Len(redeems[r].ops)] = "getSignedUrl!"

SeenNow(tok) ==
  (IF RedeemedBefore(tok) THEN {"redeemed"} ELSE {}) \cup
  (IF RejectedBefore THEN {"rejected"} ELSE {}) \cup
  (IF SignFailedBefore(tok) THEN {"unsigned"} ELSE {})

\* lines 16-23: read the token, 400 when missing, else go on to the store
RedeemStart(tok) ==
  /\ Len(redeems) < MaxRedeem
  /\ redeems' = Append(redeems,
       [token |-> tok,
        pc |-> IF tok = NoToken THEN "done" ELSE "find",
        status |-> IF tok = NoToken THEN 400 ELSE 0,
        found |-> <<>>, location |-> <<>>, ops |-> <<>>,
        at |-> now, seen |-> SeenNow(tok)])
  /\ UNCHANGED <<now, tokens, ttlIndex, domains, emails, issues, verifies>>
  /\ UNCHANGED <<admins, listed, fn, conn, widget>>

\* lines 26-30: await tokens.findOne({ token }); 403 when null
RedeemFind(r) ==
  /\ redeems[r].pc = "find"
  /\ LET doc == findOne(tokens, redeems[r].token) IN
       redeems' = [redeems EXCEPT
         ![r].found = doc,
         ![r].ops = Append(@, "findOne"),
         ![r].pc = IF doc = <<>> THEN "done" ELSE "delete",
         ![r].status = IF doc = <<>> THEN 403 ELSE 0]
  /\ UNCHANGED <<now, tokens, ttlIndex, domains, emails, issues, verifies>>
  /\ UNCHANGED <<admins, listed, fn, conn, widget>>

\* line 32: await tokens.deleteOne({ token })
RedeemDelete(r) ==
  /\ redeems[r].pc = "delete"
  /\ tokens' = deleteOne(tokens, redeems[r].token)
  /\ redeems' = [redeems EXCEPT ![r].ops = Append(@, "deleteOne"),
                                ![r].pc = "sign"]
  /\ UNCHANGED <<now, ttlIndex, domains, emails, issues, verifies>>
  /\ UNCHANGED <<admins, listed, fn, conn, widget>>

\* lines 35-64: random suffix, await getSignedUrl(..., 60), 302 Location
RedeemSign(r) ==
  /\ redeems[r].pc = "sign"
  /\ \E suffix \in Suffixes :
       redeems' = [redeems EXCEPT
         ![r].ops = Append(@, "getSignedUrl"),
         ![r].location = <<SignedUrl(suffix)>>,
         ![r].status = 302,
         ![r].pc = "done"]
  /\ UNCHANGED <<now, tokens, ttlIndex, domains, emails, issues, verifies>>
  /\ UNCHANGED <<admins, listed, fn, conn, widget>>

RedeemFindFail_retry(r) ==
  /\ redeems[r].pc = "find"
  /\ \E failure \in {"connect!", "findOne!"} :
       redeems' = [redeems EXCEPT ![r].ops = Append(@, failure)]
  /\ UNCHANGED <<now, tokens, ttlIndex, domains, emails, issues, verifies>>
  /\ UNCHANGED <<admins, listed, fn, conn, widget>>

\* line 23 or line 26 when connectToDB or findOne rejects: no try/catch,
\* the handler is left at once and the runtime answers 500
RedeemFindFail(r) ==
  /\ redeems[r].pc = "find"
  /\ \E failure \in {"connect!", "findOne!"} :
       redeems' = [redeems EXCEPT ![r].ops = Append(@, failure),
                                  ![r].status = 500,
                                  ![r].pc = "done"]
  /\ UNCHANGED <<now, tokens, ttlIndex, domains, emails, issues, verifies>>
  /\ UNCHANGED <<admins, listed, fn, conn, widget>>

\* line 32 when deleteOne rejects: the handler is left at once; the store
\* may or may not have applied the delete before the error
RedeemDeleteFail(r) ==
  /\ redeems[r].pc = "delete"
  /\ tokens' \in {tokens, deleteOne(tokens, redeems[r].token)}
  /\ redeems' = [redeems EXCEPT ![r].ops = Append(@, "deleteOne!"),
                                ![r].status = 500,
                                ![r].pc = "done"]
  /\ UNCHANGED <<now, ttlIndex, domains, emails, issues, verifies>>
  /\ UNCHANGED <<admins, listed, fn, conn, widget>>

RedeemSignFail_restore(r) ==
  /\ redeems[r].pc = "sign"
  /\ tokens' = Append(tokens, redeems[r].found[1])
  /\ redeems' = [redeems EXCEPT
       ![r].ops = Append(@, "getSignedUrl!"),
       ![r].status = 500,
       ![r].pc = "done"]
  /\ UNCHANGED <<now, ttlIndex, domains, emails, issues, verifies>>
  /\ UNCHANGED <<admins, listed, fn, conn, widget>>

\* line 45 when getSignedUrl rejects: the handler has no try/catch, the
\* rejection leaves it before writeHead (line 63) and the runtime answers
\* 500; nothing is written back to tokens
RedeemSignFail(r) ==
  /\ redeems[r].pc = "sign"
  /\ redeems' = [redeems EXCEPT
       ![r].ops = Append(@, "getSignedUrl!"),
       ![r].status = 500,
       ![r].pc = "done"]
  /\ UNCHANGED <<now, tokens, ttlIndex, domains, emails, issues, verifies>>
  /\ UNCHANGED <<admins, listed, fn, conn, widget>>

(***************************************************************************)
(* String functions of verify-email.js.                                    *)
(***************************************************************************)
Upper == <<"A","B","C","D","E","F","G","H","I","J","K","L","M",
           "N","O","P","Q","R","S","T","U","V","W","X","Y","Z">>
Lower == <<"a","b","c","d","e","f","g","h","i","j","k","l","m",
           "n","o","p","q","r","s","t","u","v","w","x","y","z">>

LowerChar(c) ==
  IF \E i \in 1..26 : Upper[i] = c
  THEN Lower[CHOOSE i \in 1..26 : Upper[i] = c]
  ELSE c

\* String.prototype.toLowerCase
toLowerCase(s) == [i \in 1..Len(s) |-> LowerChar(s[i])]

Whitespace == {" ", "\t", "\n", "\r"}

\* the class [^\s@]
Plain(c) == c \notin Whitespace /\ c # "@"

\* /^[^\s@]+@[^\s@]+\.[^\s@]+$/.test(email)
emailRegex(email) ==
  \E i \in 1..Len(email) : \E j \in 1..Len(email) :
    /\ email[i] = "@"
    /\ email[j] = "."
    /\ 1 < i /\ i + 1 < j /\ j < Len(email)
    /\ \A k \in 1..Len(email) : k # i => Plain(email[k])

\* String.prototype.split with a one-character separator
RECURSIVE split(_, _)
split(s, sep) ==
  IF \E i \in 1..Len(s) : s[i] = sep
  THEN LET i == CHOOSE i \in 1..Len(s) :
                  s[i] = sep /\ \A j \in 1..(i - 1) : s[j] # sep
       IN <<SubSeq(s, 1, i - 1)>> \o split(SubSeq(s, i + 1, Len(s)), sep)
  ELSE <<s>>

\* lines 41-43: email.split('@')[1].toLowerCase()
getDomainFromEmail(email) == toLowerCase(split(email, "@")[2])

\* lines 46-51
generateCleanDomainFromEmail(email) ==
  LET domain      == toLowerCase(split(email, "@")[2])
      domainParts == split(domain, ".")
  IN IF Len(domainParts) > 1
     THEN domainParts[Len(domainParts) - 1]
     ELSE domainParts[1]

\* position of the first occurrence of pat in s, 0 when there is none
indexOf(s, pat) ==
  LET hits == {i \in 1..(Len(s) - Len(pat) + 1) :
                 SubSeq(s, i, i + Len(pat) - 1) = pat}
  IN IF hits = {} THEN 0
     ELSE CHOOSE i \in hits : \A j \in hits : i <= j

\* the character U+0060 (grave accent), which cannot be written inside a
\* TLA+ string
GRAVE == "U+0060"

\* GetSubstitution for a string pattern: $$, $&, $ followed by U+0060, and
\* $' are special in the replacement text
RECURSIVE substitution(_, _, _, _)
substitution(rep, matched, before, after) ==
  IF rep = <<>> THEN <<>>
  ELSE IF Head(rep) = "$" /\ Len(rep) >= 2 /\ rep[2] \in {"$", "&", GRAVE, "'"}
  THEN (CASE rep[2] = "$" -> <<"$">>
          [] rep[2] = "&" -> matched
          [] rep[2] = GRAVE -> before
          [] rep[2] = "'" -> after)
       \o substitution(SubSeq(rep, 3, Len(rep)), matched, before, after)
  ELSE <<Head(rep)>> \o substitution(Tail(rep), matched, before, after)

\* String.prototype.replace(pattern string, replacement string):
\* the first occurrence only
replace(s, pat, rep) ==
  LET i == indexOf(s, pat) IN
    IF i = 0 THEN s
    ELSE LET before == SubSeq(s, 1, i - 1)
             after  == SubSeq(s, i + Len(pat), Len(s))
         IN before \o substitution(rep, pat, before, after) \o after

\* lines 54-60
generateRedirectUrl(email) ==
  replace(replace(REDIRECT_URL, PH_DOMAIN, generateCleanDomainFromEmail(email)),
          PH_EMAIL, email)

isDomainAllowed_first(coll, domain) ==
  coll # <<>> /\ coll[1] = toLowerCase(domain)

\* lines 85-94: collection.findOne({ domain: domain.toLowerCase() })
isDomainAllowed(coll, domain) ==
  \E i \in 1..Len(coll) : coll[i] = toLowerCase(domain)

\* how a call of isDomainAllowed can fail: connectToDatabase throws, or
\* findOne throws
StoreFailures == {"connect!", "findOne!"}

isDomainAllowedResult_open(coll, domain, outcome) ==
  IF outcome \in StoreFailures THEN TRUE
  ELSE isDomainAllowed(coll, domain)

\* lines 85-99 with the try/catch: the catch block returns false
isDomainAllowedResult(coll, domain, outcome) ==
  IF outcome \in StoreFailures THEN FALSE
  ELSE isDomainAllowed(coll, domain)

Digits == {"0","1","2","3","4","5","6","7","8","9"}
LowerLetter(c) == \E i \in 1..26 : Lower[i] = c
Alnum(c) == LowerLetter(c) \/ c \in Digits

\* /^[a-z0-9]+([\-\.]{1}[a-z0-9]+)*\.[a-z]{2,}$/.test(s): runs of [a-z0-9]
\* joined by single "-" or ".", then "." and at least two letters
domainRegex(s) ==
  \E j \in 2..(Len(s) - 2) :
    /\ s[j] = "."
    /\ \A i \in (j + 1)..Len(s) : LowerLetter(s[i])
    /\ Alnum(s[1]) /\ Alnum(s[j - 1])
    /\ \A i \in 1..(j - 1) :
         \/ Alnum(s[i])
         \/ /\ s[i] \in {"-", "."}
            /\ 1 < i /\ i < j - 1
            /\ Alnum(s[i - 1]) /\ Alnum(s[i + 1])

\* String.prototype.trim
trim(s) ==
  LET keep == {i \in 1..Len(s) : s[i] \notin Whitespace} IN
    IF keep = {} THEN <<>>
    ELSE SubSeq(s, CHOOSE i \in keep : \A j \in keep : i <= j,
                   CHOOSE i \in keep : \A j \in keep : j <= i)

\* content.split(/\r?\n/): split at "\n", a "\r" right before it goes too
splitLines(content) ==
  LET parts == split(content, "\n") IN
    [i \in 1..Len(parts) |->
       IF i < Len(parts) /\ parts[i] # <<>> /\ parts[i][Len(parts[i])] = "\r"
       THEN SubSeq(parts[i], 1, Len(parts[i]) - 1)
       ELSE parts[i]]

\* lines 433-451 of processDomainTextContent: the non-blank lines, each
\* trimmed and lower-cased
cleanLines(content) ==
  LET NonBlank(line) == trim(line) # <<>>
      lines == SelectSeq(splitLines(content), NonBlank)
  IN [i \in 1..Len(lines) |-> toLowerCase(trim(lines[i]))]

validDomains(content) == SelectSeq(cleanLines(content), domainRegex)

\* lines 137-145 of bulkAddDomains: the entries of list with no stored record
newDomains(coll, list) ==
  LET Missing(d) == ~isDomainAllowed(coll, d) IN SelectSeq(list, Missing)

\* deleteMany({ domain: { $in: list.map(toLowerCase) } })
deleteManyIn(coll, list) ==
  LET Stays(d) == \A i \in 1..Len(list) : toLowerCase(list[i]) # d
  IN SelectSeq(coll, Stays)

\* deleteOne({ domain: domain.toLowerCase() }): the first match goes
deleteOneDomain(coll, domain) ==
  IF isDomainAllowed(coll, domain)
  THEN LET i == CHOOSE i \in 1..Len(coll) :
                  /\ coll[i] = toLowerCase(domain)
                  /\ \A j \in 1..(i - 1) : coll[j] # toLowerCase(domain)
       IN SubSeq(coll, 1, i - 1) \o SubSeq(coll, i + 1, Len(coll))
  ELSE coll

(***************************************************************************)
(* verify-email.js handler, validate route (lines 1863-1899).              *)
(***************************************************************************)
\* the document logEmail inserts (timestamp, userAgent and ip left out); id
\* is the _id the store gives it, here the number of the request that logs
EmailEntry(id, email) ==
  [id |-> id, email |-> email, domain |-> getDomainFromEmail(email)]

VerifyStart_logFirst(email) ==
  /\ Len(verifies) < MaxVerify
  /\ emails' = Append(emails, [id |-> Len(verifies) + 1, email |-> email,
                               domain |-> <<>>])
  /\ verifies' = Append(verifies,
       [email |-> email, redirectUrl |-> <<>>, ops |-> <<"insertOne">>,
        pc |-> IF email # NoEmail /\ emailRegex(email) THEN "check" ELSE "done",
        status |-> IF email # NoEmail /\ emailRegex(email) THEN 0 ELSE 400,
        success |-> FALSE,
        message |-> IF email = NoEmail THEN MSG_NO_EMAIL
                    ELSE IF ~emailRegex(email) THEN MSG_BAD_FORMAT ELSE ""])
  /\ UNCHANGED <<now, tokens, ttlIndex, domains, issues, redeems>>
  /\ UNCHANGED <<admins, listed, fn, conn, widget>>

\* lines 1865-1877: 400 when the email is missing or malformed, else go on
\* to logEmail
VerifyStart(email) ==
  /\ Len(verifies) < MaxVerify
  /\ verifies' = Append(verifies,
       [email |-> email, redirectUrl |-> <<>>, ops |-> <<>>,
        pc |-> IF email # NoEmail /\ emailRegex(email) THEN "log" ELSE "done",
        status |-> IF email # NoEmail /\ emailRegex(email) THEN 0 ELSE 400,
        success |-> FALSE,
        message |-> IF email = NoEmail THEN MSG_NO_EMAIL
                    ELSE IF ~emailRegex(email) THEN MSG_BAD_FORMAT ELSE ""])
  /\ UNCHANGED <<now, tokens, ttlIndex, domains, emails, issues, redeems>>
  /\ UNCHANGED <<admins, listed, fn, conn, widget>>

\* line 1877 with lines 63-77: await logEmail(...), the insert succeeds
VerifyLog(k) ==
  /\ verifies[k].pc = "log"
  /\ emails' = Append(emails, EmailEntry(k, verifies[k].email))
  /\ verifies' = [verifies EXCEPT ![k].ops = Append(@, "insertOne"),
                                  ![k].pc = "check"]
  /\ UNCHANGED <<now, tokens, ttlIndex, domains, issues, redeems>>
  /\ UNCHANGED <<admins, listed, fn, conn, widget>>

\* line 1877 with lines 78-81: the connect or the insert throws inside
\* logEmail, its catch block returns false, the handler ignores the result
VerifyLogFail(k) ==
  /\ verifies[k].pc = "log"
  /\ verifies' = [verifies EXCEPT ![k].ops = Append(@, "insertOne!"),
                                  ![k].pc = "check"]
  /\ UNCHANGED <<now, tokens, ttlIndex, domains, emails, issues, redeems>>
  /\ UNCHANGED <<admins, listed, fn, conn, widget>>

VerifyCheck_burn(k) ==
  /\ verifies[k].pc = "check"
  /\ LET email   == verifies[k].email
         allowed == isDomainAllowed(domains, getDomainFromEmail(email))
     IN /\ verifies' = [verifies EXCEPT
             ![k].ops = Append(@, "findOne"),
             ![k].pc = "done",
             ![k].status = IF allowed THEN 200 ELSE 400,
             ![k].success = allowed,
             ![k].message = IF allowed THEN MSG_OK ELSE MSG_NOT_ALLOWED,
             ![k].redirectUrl =
                IF allowed THEN generateRedirectUrl(email) ELSE <<>>]
        /\ tokens' = IF allowed THEN tokens ELSE <<>>
  /\ UNCHANGED <<now, ttlIndex, domains, emails, issues, redeems>>
  /\ UNCHANGED <<admins, listed, fn, conn, widget>>

VerifyCheck_open(k) ==
  /\ verifies[k].pc = "check"
  /\ LET email == verifies[k].email
     IN verifies' = [verifies EXCEPT
          ![k].ops = Append(@, "findOne"),
          ![k].pc = "done",
          ![k].status = 200,
          ![k].success = TRUE,
          ![k].message = MSG_OK,
          ![k].redirectUrl = generateRedirectUrl(email)]
  /\ UNCHANGED <<now, tokens, ttlIndex, domains, emails, issues, redeems>>
  /\ UNCHANGED <<admins, listed, fn, conn, widget>>

\* lines 1880-1894: await isDomainAllowed(domain); 400 when not allowed,
\* else 200 with the redirect URL
VerifyCheck(k) ==
  /\ verifies[k].pc = "check"
  /\ LET email   == verifies[k].email
         allowed == isDomainAllowed(domains, getDomainFromEmail(email))
     IN verifies' = [verifies EXCEPT
          ![k].ops = Append(@, "findOne"),
          ![k].pc = "done",
          ![k].status = IF allowed THEN 200 ELSE 400,
          ![k].success = allowed,
          ![k].message = IF allowed THEN MSG_OK ELSE MSG_NOT_ALLOWED,
          ![k].redirectUrl =
             IF allowed THEN generateRedirectUrl(email) ELSE <<>>]
  /\ UNCHANGED <<now, tokens, ttlIndex, domains, emails, issues, redeems>>
  /\ UNCHANGED <<admins, listed, fn, conn, widget>>

\* lines 1880-1894 when the store fails inside isDomainAllowed, at
\* connectToDatabase (line 87) or at findOne (line 92)
VerifyCheckFail(k) ==
  /\ verifies[k].pc = "check"
  /\ \E outcome \in StoreFailures :
       LET email   == verifies[k].email
           allowed == isDomainAllowedResult(domains, getDomainFromEmail(email),
                                            outcome)
       IN verifies' = [verifies EXCEPT
            ![k].ops = Append(@, outcome),
            ![k].pc = "done",
            ![k].status = IF allowed THEN 200 ELSE 400,
            ![k].success = allowed,
            ![k].message = IF allowed THEN MSG_OK ELSE MSG_NOT_ALLOWED,
            ![k].redirectUrl =
               IF allowed THEN generateRedirectUrl(email) ELSE <<>>]
  /\ UNCHANGED <<now, tokens, ttlIndex, domains, emails, issues, redeems>>
  /\ UNCHANGED <<admins, listed, fn, conn, widget>>

(***************************************************************************)
(* verify-email.js handler, administrative routes for the allowlist        *)
(* (lines 1644-1800) with addDomain, bulkAddDomains, deleteDomain,         *)
(* bulkDeleteDomains, removeAllDomains and processDomainTextContent.       *)
(* listed is history: it follows the answers the administrator got.        *)
(***************************************************************************)
NoResults == [totalProcessed |-> 0, added |-> 0, skipped |-> 0, failed |-> 0]

\* one administrative request: token is req.query.token or req.body.token,
\* ops the store operations the request has performed so far
AdminReq(tok, op, arg, pc, status, message) ==
  [token |-> tok, op |-> op, arg |-> arg, pc |-> pc, status |-> status,
   message |-> message, ops |-> <<>>, pending |-> <<>>, results |-> NoResults,
   count |-> 0, page |-> <<>>]

isAdmin_anyToken(tok) == tok # ""

\* line 1588 and the "if (!isAdmin)" that opens every administrative route
isAdmin(tok) == tok = ADMIN_TOKEN

LowerSet(list) == {toLowerCase(list[i]) : i \in 1..Len(list)}

\* lines 1716-1735: 401, 400 for a missing or malformed domain, else on to
\* addDomain
AddDomainStart(tok, domain) ==
  /\ Len(admins) < MaxAdmin
  /\ admins' = Append(admins,
       IF ~isAdmin(tok)
       THEN AdminReq(tok, "adddomain", NoDomain, "done", 401, MSG_UNAUTHORIZED)
       ELSE IF domain = NoDomain
       THEN AdminReq(tok, "adddomain", domain, "done", 400, MSG_NO_DOMAIN)
       ELSE IF ~domainRegex(toLowerCase(domain))
       THEN AdminReq(tok, "adddomain", domain, "done", 400, MSG_BAD_DOMAIN)
       ELSE AdminReq(tok, "adddomain", domain, "find", 0, ""))
  /\ UNCHANGED <<now, tokens, ttlIndex, domains, emails, issues, redeems,
                 verifies, listed, fn, conn, widget>>

\* lines 108-111: findOne({ domain: domain.toLowerCase() }); success with
\* alreadyExists when there is a record
AddDomainFind(a) ==
  /\ admins[a].op = "adddomain" /\ admins[a].pc = "find"
  /\ IF isDomainAllowed(domains, admins[a].arg)
     THEN /\ admins' = [admins EXCEPT ![a].ops = Append(@, "findOne"),
                                      ![a].pc = "done", ![a].status = 200,
                                      ![a].message = MSG_EXISTS]
          /\ listed' = listed \cup {toLowerCase(admins[a].arg)}
     ELSE /\ admins' = [admins EXCEPT ![a].ops = Append(@, "findOne"),
                                      ![a].pc = "insert"]
          /\ listed' = listed
  /\ UNCHANGED <<now, tokens, ttlIndex, domains, emails, issues, redeems,
                 verifies, fn, conn, widget>>

AddDomainInsert_asGiven(a) ==
  /\ admins[a].op = "adddomain" /\ admins[a].pc = "insert"
  /\ domains' = Append(domains, admins[a].arg)
  /\ admins' = [admins EXCEPT ![a].ops = Append(@, "insertOne"),
                                ![a].pc = "done", ![a].status = 200,
                                ![a].message = MSG_ADDED]
  /\ listed' = listed \cup {toLowerCase(admins[a].arg)}
  /\ UNCHANGED <<now, tokens, ttlIndex, emails, issues, redeems, verifies, fn, conn, widget>>

\* lines 113-119: insertOne({ domain: domain.toLowerCase(), ... })
AddDomainInsert(a) ==
  /\ admins[a].op = "adddomain" /\ admins[a].pc = "insert"
  /\ domains' = Append(domains, toLowerCase(admins[a].arg))
  /\ admins' = [admins EXCEPT ![a].ops = Append(@, "insertOne"),
                                ![a].pc = "done", ![a].status = 200,
                                ![a].message = MSG_ADDED]
  /\ listed' = listed \cup {toLowerCase(admins[a].arg)}
  /\ UNCHANGED <<now, tokens, ttlIndex, emails, issues, redeems, verifies, fn, conn, widget>>

\* lines 1743-1754: 401, 400 for a missing domain, else on to deleteDomain
DeleteDomainStart(tok, domain) ==
  /\ Len(admins) < MaxAdmin
  /\ admins' = Append(admins,
       IF ~isAdmin(tok)
       THEN AdminReq(tok, "deletedomain", NoDomain, "done", 401, MSG_UNAUTHORIZED)
       ELSE IF domain = NoDomain
       THEN AdminReq(tok, "deletedomain", domain, "done", 400, MSG_NO_DOMAIN_DEL)
       ELSE AdminReq(tok, "deletedomain", domain, "delete", 0, ""))
  /\ UNCHANGED <<now, tokens, ttlIndex, domains, emails, issues, redeems,
                 verifies, listed, fn, conn, widget>>

\* lines 183-191 and 1756: deleteOne; 400 when deletedCount is 0, else 200
DeleteDomainRun(a) ==
  /\ admins[a].op = "deletedomain" /\ admins[a].pc = "delete"
  /\ domains' = deleteOneDomain(domains, admins[a].arg)
  /\ IF isDomainAllowed(domains, admins[a].arg)
     THEN /\ admins' = [admins EXCEPT ![a].ops = Append(@, "deleteOne"),
                                      ![a].pc = "done", ![a].status = 200,
                                      ![a].message = MSG_DELETED]
          /\ listed' = listed \ {toLowerCase(admins[a].arg)}
     ELSE /\ admins' = [admins EXCEPT ![a].ops = Append(@, "deleteOne"),
                                      ![a].pc = "done", ![a].status = 400,
                                      ![a].message = MSG_NOT_FOUND]
          /\ listed' = listed
  /\ UNCHANGED <<now, tokens, ttlIndex, emails, issues, redeems, verifies, fn, conn, widget>>

\* lines 1765-1776: 401, 400 for a missing or empty list, else on to
\* bulkDeleteDomains
BulkDeleteStart(tok, list) ==
  /\ Len(admins) < MaxAdmin
  /\ admins' = Append(admins,
       IF ~isAdmin(tok)
       THEN AdminReq(tok, "bulkdeletedomain", <<>>, "done", 401, MSG_UNAUTHORIZED)
       ELSE IF list = <<>>
       THEN AdminReq(tok, "bulkdeletedomain", list, "done", 400, MSG_NO_DOMAINS_DEL)
       ELSE AdminReq(tok, "bulkdeletedomain", list, "delete", 0, ""))
  /\ UNCHANGED <<now, tokens, ttlIndex, domains, emails, issues, redeems,
                 verifies, listed, fn, conn, widget>>

\* lines 208-222 and 1778: deleteMany with $in; 400 when nothing was deleted
BulkDeleteRun(a) ==
  /\ admins[a].op = "bulkdeletedomain" /\ admins[a].pc = "delete"
  /\ domains' = deleteManyIn(domains, admins[a].arg)
  /\ IF Len(domains') < Len(domains)
     THEN /\ admins' = [admins EXCEPT ![a].ops = Append(@, "deleteMany"),
                                      ![a].pc = "done", ![a].status = 200,
                                      ![a].message = MSG_BULK_DELETED]
          /\ listed' = listed \ LowerSet(admins[a].arg)
     ELSE /\ admins' = [admins EXCEPT ![a].ops = Append(@, "deleteMany"),
                                      ![a].pc = "done", ![a].status = 400,
                                      ![a].message = MSG_NONE_DELETED]
          /\ listed' = listed
  /\ UNCHANGED <<now, tokens, ttlIndex, emails, issues, redeems, verifies, fn, conn, widget>>

\* lines 1787-1793: 401, else on to removeAllDomains
DeleteAllStart(tok) ==
  /\ Len(admins) < MaxAdmin
  /\ admins' = Append(admins,
       IF ~isAdmin(tok)
       THEN AdminReq(tok, "deletealldomains", <<>>, "done", 401, MSG_UNAUTHORIZED)
       ELSE AdminReq(tok, "deletealldomains", <<>>, "count", 0, ""))
  /\ UNCHANGED <<now, tokens, ttlIndex, domains, emails, issues, redeems,
                 verifies, listed, fn, conn, widget>>

\* lines 236-240: countDocuments({}); 400 when the collection is empty
DeleteAllCount(a) ==
  /\ admins[a].op = "deletealldomains" /\ admins[a].pc = "count"
  /\ admins' = IF domains = <<>>
               THEN [admins EXCEPT ![a].ops = Append(@, "countDocuments"),
                                   ![a].pc = "done", ![a].status = 400,
                                   ![a].message = MSG_NOTHING]
               ELSE [admins EXCEPT ![a].ops = Append(@, "countDocuments"),
                                   ![a].pc = "delete"]
  /\ UNCHANGED <<now, tokens, ttlIndex, domains, emails, issues, redeems,
                 verifies, listed, fn, conn, widget>>

\* lines 242-248: deleteMany({})
DeleteAllRun(a) ==
  /\ admins[a].op = "deletealldomains" /\ admins[a].pc = "delete"
  /\ domains' = <<>>
  /\ listed' = {}
  /\ admins' = [admins EXCEPT ![a].ops = Append(@, "deleteMany"),
                                ![a].pc = "done", ![a].status = 200,
                                ![a].message = MSG_ALL_DELETED]
  /\ UNCHANGED <<now, tokens, ttlIndex, emails, issues, redeems, verifies, fn, conn, widget>>

\* lines 1644-1691 and 421-456: 401, else processDomainTextContent up to
\* its call of bulkAddDomains (none when no line is a valid domain)
UploadStart(tok, content) ==
  /\ Len(admins) < MaxAdmin
  /\ admins' = Append(admins,
       IF ~isAdmin(tok)
       THEN AdminReq(tok, "upload", <<>>, "done", 401, MSG_UNAUTHORIZED)
       ELSE LET total == Len(cleanLines(content))
                valid == validDomains(content)
                res   == [NoResults EXCEPT !.totalProcessed = total,
                                           !.failed = total - Len(valid)]
            IN IF valid = <<>>
               THEN [AdminReq(tok, "upload", content, "done", 200, MSG_PROCESSED)
                       EXCEPT !.results = res]
               ELSE [AdminReq(tok, "upload", content, "find", 0, "")
                       EXCEPT !.results = res, !.pending = valid])
  /\ UNCHANGED <<now, tokens, ttlIndex, domains, emails, issues, redeems,
                 verifies, listed, fn, conn, widget>>

UploadFind_skipValid(a) ==
  /\ admins[a].op = "upload" /\ admins[a].pc = "find"
  /\ LET valid == admins[a].pending
         new   == newDomains(domains, valid)
     IN admins' =
          IF new = <<>>
          THEN [admins EXCEPT ![a].ops = Append(@, "find"),
                              ![a].pc = "done", ![a].status = 200,
                              ![a].message = MSG_PROCESSED,
                              ![a].pending = <<>>,
                              ![a].results.skipped = Len(valid)]
          ELSE [admins EXCEPT ![a].ops = Append(@, "find"),
                              ![a].pc = "insert",
                              ![a].pending = new,
                              ![a].results.skipped = Len(valid)]
  /\ UNCHANGED <<now, tokens, ttlIndex, domains, emails, issues, redeems,
                 verifies, listed, fn, conn, widget>>

\* lines 137-154 and 461-463: bulkAddDomains looks up the stored domains;
\* all skipped when none is new
UploadFind(a) ==
  /\ admins[a].op = "upload" /\ admins[a].pc = "find"
  /\ LET valid == admins[a].pending
         new   == newDomains(domains, valid)
     IN admins' =
          IF new = <<>>
          THEN [admins EXCEPT ![a].ops = Append(@, "find"),
                              ![a].pc = "done", ![a].status = 200,
                              ![a].message = MSG_PROCESSED,
                              ![a].pending = <<>>,
                              ![a].results.skipped = Len(valid)]
          ELSE [admins EXCEPT ![a].ops = Append(@, "find"),
                              ![a].pc = "insert",
                              ![a].pending = new,
                              ![a].results.skipped = Len(valid) - Len(new)]
  /\ UNCHANGED <<now, tokens, ttlIndex, domains, emails, issues, redeems,
                 verifies, listed, fn, conn, widget>>

\* lines 156-171 and 1700-1704: insertMany of the new domains, lower-cased
UploadInsert(a) ==
  /\ admins[a].op = "upload" /\ admins[a].pc = "insert"
  /\ LET new == admins[a].pending IN
       /\ domains' = domains \o [i \in 1..Len(new) |-> toLowerCase(new[i])]
       /\ listed' = listed \cup LowerSet(new)
       /\ admins' = [admins EXCEPT ![a].ops = Append(@, "insertMany"),
                                ![a].pc = "done", ![a].status = 200,
                                   ![a].message = MSG_PROCESSED,
                                   ![a].pending = <<>>,
                                   ![a].results.added = Len(new)]
  /\ UNCHANGED <<now, tokens, ttlIndex, emails, issues, redeems, verifies, fn, conn, widget>>

(***************************************************************************)
(* processDomainTextContent when bulkAddDomains fails: its catch returns   *)
(* success false and the valid domains are added one by one with           *)
(* addDomain, each counted as skipped, added or failed.                    *)
(***************************************************************************)
\* lines 133-140 with 172-175 and 464-469: the connect or the find throws
UploadFindFail(a) ==
  /\ admins[a].op = "upload" /\ admins[a].pc = "find"
  /\ admins' = [admins EXCEPT ![a].ops = Append(@, "find!"),
                              ![a].pc = "fallback"]
  /\ UNCHANGED <<now, tokens, ttlIndex, domains, emails, issues, redeems,
                 verifies, listed, fn, conn, widget>>

\* line 164 with 172-175 and 464-469: insertMany throws; the documents it
\* had inserted before the error stay
UploadInsertFail(a) ==
  /\ admins[a].op = "upload" /\ admins[a].pc = "insert"
  /\ \E n \in 0..Len(admins[a].pending) :
       domains' = domains \o [i \in 1..n |-> toLowerCase(admins[a].pending[i])]
  /\ admins' = [admins EXCEPT ![a].ops = Append(@, "insertMany!"),
                              ![a].pc = "fallback",
                              ![a].pending = validDomains(admins[a].arg),
                              ![a].results.skipped = 0]
  /\ UNCHANGED <<now, tokens, ttlIndex, emails, issues, redeems, verifies,
                 listed, fn, conn, widget>>

\* the next domain of the fallback loop has been counted
UploadCounted(r) ==
  IF Len(r.pending) = 1
  THEN [r EXCEPT !.pending = <<>>, !.pc = "done", !.status = 200,
                 !.message = MSG_PROCESSED]
  ELSE [r EXCEPT !.pending = Tail(@), !.pc = "fallback"]

\* lines 471-481 with 108-111: addDomain finds a record, skipped++
UploadFallbackFind(a) ==
  /\ admins[a].op = "upload" /\ admins[a].pc = "fallback"
  /\ LET domain == Head(admins[a].pending)
         r == [admins[a] EXCEPT !.ops = Append(@, "findOne")]
     IN IF isDomainAllowed(domains, domain)
        THEN /\ admins' = [admins EXCEPT ![a] =
                  UploadCounted([r EXCEPT !.results.skipped = @ + 1])]
             /\ listed' = listed \cup {toLowerCase(domain)}
        ELSE /\ admins' = [admins EXCEPT ![a] = [r EXCEPT !.pc = "fallbackInsert"]]
             /\ listed' = listed
  /\ UNCHANGED <<now, tokens, ttlIndex, domains, emails, issues, redeems,
                 verifies, fn, conn, widget>>

\* lines 482-489 with 113-119: addDomain inserts the record, added++
UploadFallbackInsert(a) ==
  /\ admins[a].op = "upload" /\ admins[a].pc = "fallbackInsert"
  /\ LET domain == Head(admins[a].pending)
         r == [admins[a] EXCEPT !.ops = Append(@, "insertOne")]
     IN /\ domains' = Append(domains, toLowerCase(domain))
        /\ listed' = listed \cup {toLowerCase(domain)}
        /\ admins' = [admins EXCEPT ![a] =
             UploadCounted([r EXCEPT !.results.added = @ + 1])]
  /\ UNCHANGED <<now, tokens, ttlIndex, emails, issues, redeems, verifies,
                 fn, conn, widget>>

\* lines 490-497 with 120-123: the connect, the findOne or the insertOne of
\* addDomain throws, its catch returns success false, failed++
UploadFallbackFail(a) ==
  /\ admins[a].op = "upload"
  /\ admins[a].pc \in {"fallback", "fallbackInsert"}
  /\ LET r == [admins[a] EXCEPT !.ops = Append(@, "addDomain!")]
     IN admins' = [admins EXCEPT ![a] =
          UploadCounted([r EXCEPT !.results.failed = @ + 1])]
  /\ UNCHANGED <<now, tokens, ttlIndex, domains, emails, issues, redeems,
                 verifies, listed, fn, conn, widget>>

(***************************************************************************)
(* The read-only administrative routes and the routes of the email log:    *)
(* admin view with getEmails and getDomains, uploadform, deleteemail,      *)
(* bulkdeleteemail and deleteallemails.                                    *)
(***************************************************************************)
Reverse(seq) == [i \in 1..Len(seq) |-> seq[Len(seq) + 1 - i]]

\* lines 1592-1602: 401, else on to getDomains or getEmails
AdminViewStart(tok, view) ==
  /\ Len(admins) < MaxAdmin
  /\ admins' = Append(admins,
       IF ~isAdmin(tok)
       THEN AdminReq(tok, "admin", "", "done", 401, MSG_UNAUTHORIZED)
       ELSE AdminReq(tok, "admin", view, "count", 0, ""))
  /\ UNCHANGED <<now, tokens, ttlIndex, domains, emails, issues, redeems,
                 verifies, listed, fn, conn, widget>>

\* lines 350 and 391: countDocuments(query), no search text
AdminViewCount(a) ==
  /\ admins[a].op = "admin" /\ admins[a].pc = "count"
  /\ admins' = [admins EXCEPT
       ![a].ops = Append(@, "countDocuments"),
       ![a].pc = "find",
       ![a].count = IF admins[a].arg = "domains" THEN Len(domains)
                                                 ELSE Len(emails)]
  /\ UNCHANGED <<now, tokens, ttlIndex, domains, emails, issues, redeems,
                 verifies, listed, fn, conn, widget>>

\* lines 353-357 and 394-398 with 1603-1624: find, newest first, answered
\* 200 with the page
AdminViewFind(a) ==
  /\ admins[a].op = "admin" /\ admins[a].pc = "find"
  /\ admins' = [admins EXCEPT
       ![a].ops = Append(@, "find"),
       ![a].pc = "done", ![a].status = 200,
       ![a].page = IF admins[a].arg = "domains" THEN Reverse(domains)
                   ELSE [i \in 1..Len(emails) |-> Reverse(emails)[i].email]]
  /\ UNCHANGED <<now, tokens, ttlIndex, domains, emails, issues, redeems,
                 verifies, listed, fn, conn, widget>>

\* lines 1633-1641: 401, else the upload form, no store access
UploadForm(tok) ==
  /\ Len(admins) < MaxAdmin
  /\ admins' = Append(admins,
       IF ~isAdmin(tok)
       THEN AdminReq(tok, "uploadform", "", "done", 401, MSG_UNAUTHORIZED)
       ELSE AdminReq(tok, "uploadform", "", "done", 200, ""))
  /\ UNCHANGED <<now, tokens, ttlIndex, domains, emails, issues, redeems,
                 verifies, listed, fn, conn, widget>>

\* lines 1803-1814: 401, 400 for a missing id, else on to deleteEmail
DeleteEmailStart(tok, id) ==
  /\ Len(admins) < MaxAdmin
  /\ admins' = Append(admins,
       IF ~isAdmin(tok)
       THEN AdminReq(tok, "deleteemail", NoId, "done", 401, MSG_UNAUTHORIZED)
       ELSE IF id = NoId
       THEN AdminReq(tok, "deleteemail", id, "done", 400, MSG_NO_EMAIL_ID)
       ELSE AdminReq(tok, "deleteemail", id, "delete", 0, ""))
  /\ UNCHANGED <<now, tokens, ttlIndex, domains, emails, issues, redeems,
                 verifies, listed, fn, conn, widget>>

\* lines 260-268 and 1816: deleteOne({ _id }); 400 when deletedCount is 0
DeleteEmailRun(a) ==
  /\ admins[a].op = "deleteemail" /\ admins[a].pc = "delete"
  /\ LET Stays(e) == e.id # admins[a].arg IN
       /\ emails' = SelectSeq(emails, Stays)
       /\ admins' = [admins EXCEPT
            ![a].ops = Append(@, "deleteOne"),
            ![a].pc = "done",
            ![a].status = IF emails' # emails THEN 200 ELSE 400,
            ![a].message = IF emails' # emails THEN MSG_EMAIL_DELETED
                                               ELSE MSG_EMAIL_NOT_FOUND]
  /\ UNCHANGED <<now, tokens, ttlIndex, domains, issues, redeems, verifies,
                 listed, fn, conn, widget>>

\* lines 1825-1836: 401, 400 for a missing or empty list, else on to
\* bulkDeleteEmails
BulkDeleteEmailStart(tok, ids) ==
  /\ Len(admins) < MaxAdmin
  /\ admins' = Append(admins,
       IF ~isAdmin(tok)
       THEN AdminReq(tok, "bulkdeleteemail", <<>>, "done", 401,
                     MSG_UNAUTHORIZED)
       ELSE IF ids = <<>>
       THEN AdminReq(tok, "bulkdeleteemail", ids, "done", 400,
                     MSG_NO_EMAIL_IDS)
       ELSE AdminReq(tok, "bulkdeleteemail", ids, "delete", 0, ""))
  /\ UNCHANGED <<now, tokens, ttlIndex, domains, emails, issues, redeems,
                 verifies, listed, fn, conn, widget>>

\* lines 285-300 and 1838: deleteMany({ _id: { $in } }); 400 when nothing
\* was deleted
BulkDeleteEmailRun(a) ==
  /\ admins[a].op = "bulkdeleteemail" /\ admins[a].pc = "delete"
  /\ LET ids == admins[a].arg
         Stays(e) == \A i \in 1..Len(ids) : ids[i] # e.id
     IN /\ emails' = SelectSeq(emails, Stays)
        /\ admins' = [admins EXCEPT
             ![a].ops = Append(@, "deleteMany"),
             ![a].pc = "done",
             ![a].status = IF emails' # emails THEN 200 ELSE 400,
             ![a].message = IF emails' # emails THEN MSG_EMAILS_DELETED
                                                ELSE MSG_NO_EMAILS_DELETED]
  /\ UNCHANGED <<now, tokens, ttlIndex, domains, issues, redeems, verifies,
                 listed, fn, conn, widget>>

\* lines 1847-1853: 401, else on to removeAllEmails
DeleteAllEmailsStart(tok) ==
  /\ Len(admins) < MaxAdmin
  /\ admins' = Append(admins,
       IF ~isAdmin(tok)
       THEN AdminReq(tok, "deleteallemails", <<>>, "done", 401,
                     MSG_UNAUTHORIZED)
       ELSE AdminReq(tok, "deleteallemails", <<>>, "count", 0, ""))
  /\ UNCHANGED <<now, tokens, ttlIndex, domains, emails, issues, redeems,
                 verifies, listed, fn, conn, widget>>

\* lines 314-318: countDocuments({}); 400 when the log is empty
DeleteAllEmailsCount(a) ==
  /\ admins[a].op = "deleteallemails" /\ admins[a].pc = "count"
  /\ admins' = IF emails = <<>>
               THEN [admins EXCEPT ![a].ops = Append(@, "countDocuments"),
                                   ![a].pc = "done", ![a].status = 400,
                                   ![a].message = MSG_NO_EMAILS]
               ELSE [admins EXCEPT ![a].ops = Append(@, "countDocuments"),
                                   ![a].pc = "delete"]
  /\ UNCHANGED <<now, tokens, ttlIndex, domains, emails, issues, redeems,
                 verifies, listed, fn, conn, widget>>

\* lines 320-326: deleteMany({})
DeleteAllEmailsRun(a) ==
  /\ admins[a].op = "deleteallemails" /\ admins[a].pc = "delete"
  /\ emails' = <<>>
  /\ admins' = [admins EXCEPT ![a].ops = Append(@, "deleteMany"),
                              ![a].pc = "done", ![a].status = 200,
                              ![a].message = MSG_ALL_EMAILS_DELETED]
  /\ UNCHANGED <<now, tokens, ttlIndex, domains, issues, redeems, verifies,
                 listed, fn, conn, widget>>

(***************************************************************************)
(* The format check and the redirect resolver applied to one email.        *)
(***************************************************************************)
\* lines 1865-1874: !email or a failed emailRegex.test(email) refuses; test
\* applies ToString to its argument, fn.email is that text
FormatCheck ==
  /\ fn.state = "input"
  /\ fn' = [fn EXCEPT !.state = IF fn.email # NoEmail /\ emailRegex(fn.email)
                                THEN "passed" ELSE "refused"]
  /\ UNCHANGED <<now, tokens, ttlIndex, domains, emails, issues, redeems,
                 verifies, admins, listed, conn, widget>>

\* email.split('@')[1].toLowerCase() throws a TypeError when email has no
\* method split (it is not a string) or when split gives fewer than two parts
splitThrows(type, email) ==
  type # "string" \/ Len(split(email, "@")) < 2

\* line 1880: const domain = getDomainFromEmail(email); a TypeError goes to
\* the catch of line 1895 (500)
ExtractDomain ==
  /\ fn.state = "passed"
  /\ fn' = IF splitThrows(fn.type, fn.email)
           THEN [fn EXCEPT !.state = "error"]
           ELSE [fn EXCEPT !.state = "checked",
                           !.domain = getDomainFromEmail(fn.email)]
  /\ UNCHANGED <<now, tokens, ttlIndex, domains, emails, issues, redeems,
                 verifies, admins, listed, conn, widget>>

\* line 1888: const redirectUrl = generateRedirectUrl(email)
Resolve ==
  /\ fn.state = "checked"
  /\ fn' = [fn EXCEPT !.state = "done", !.url = generateRedirectUrl(fn.email)]
  /\ UNCHANGED <<now, tokens, ttlIndex, domains, emails, issues, redeems,
                 verifies, admins, listed, conn, widget>>

(***************************************************************************)
(* The connection caches: connectToDB of utils/mongodb.js (part_000 lines  *)
(* 3-13, module variables client and db) and connectToDatabase of          *)
(* verify-email.js (lines 16-38, module variables cachedClient and         *)
(* cachedDb, the new client in a local const).  A call runs up to its      *)
(* await client.connect() and goes on when the connect settles.  A db      *)
(* handle carries the number of the client it came from.                   *)
(***************************************************************************)
ConnCall(f, pc, local, result) ==
  [fn |-> f, pc |-> pc, local |-> local, result |-> result]

\* part_000 lines 7-10: if (db) return db; client = new MongoClient(...);
\* await client.connect()
ConnectToDBStart ==
  /\ Len(conn.calls) < MaxCalls
  /\ conn' =
       IF conn.db # 0
       THEN [conn EXCEPT !.calls =
               Append(@, ConnCall("connectToDB", "returned", 0, conn.db))]
       ELSE [conn EXCEPT !.made = @ + 1,
                         !.client = conn.made + 1,
                         !.calls = Append(@, ConnCall("connectToDB",
                                     "connecting", conn.made + 1, 0))]
  /\ UNCHANGED <<now, tokens, ttlIndex, domains, emails, issues, redeems,
                 verifies, admins, listed, fn, widget>>

\* part_000 lines 11-12: db = client.db("downloads_db"); return db, with
\* client the module variable as it is when the connect has completed
ConnectToDBDone(c) ==
  /\ conn.calls[c].fn = "connectToDB" /\ conn.calls[c].pc = "connecting"
  /\ conn' = [conn EXCEPT !.connected = @ \cup {conn.calls[c].local},
                          !.db = conn.client,
                          !.calls[c].pc = "returned",
                          !.calls[c].result = conn.client]
  /\ UNCHANGED <<now, tokens, ttlIndex, domains, emails, issues, redeems,
                 verifies, admins, listed, fn, widget>>

\* part_000 line 10 when client.connect() rejects: the call throws, db stays
\* unset and client keeps the client that failed
ConnectToDBFail(c) ==
  /\ conn.calls[c].fn = "connectToDB" /\ conn.calls[c].pc = "connecting"
  /\ conn' = [conn EXCEPT !.calls[c].pc = "thrown"]
  /\ UNCHANGED <<now, tokens, ttlIndex, domains, emails, issues, redeems,
                 verifies, admins, listed, fn, widget>>

\* verify-email.js lines 18-22: return the cached pair when both are set,
\* else const client = new MongoClient(...); await client.connect()
ConnectToDatabaseStart ==
  /\ Len(conn.calls) < MaxCalls
  /\ conn' =
       IF conn.cachedClient # 0 /\ conn.cachedDb # 0
       THEN [conn EXCEPT !.calls =
               Append(@, ConnCall("connectToDatabase", "returned", 0,
                                  conn.cachedDb))]
       ELSE [conn EXCEPT !.made = @ + 1,
                         !.calls = Append(@, ConnCall("connectToDatabase",
                                     "connecting", conn.made + 1, 0))]
  /\ UNCHANGED <<now, tokens, ttlIndex, domains, emails, issues, redeems,
                 verifies, admins, listed, fn, widget>>

\* verify-email.js lines 24-29: db = client.db(DB_NAME) of the local client,
\* cache both, return
ConnectToDatabaseDone(c) ==
  /\ conn.calls[c].fn = "connectToDatabase"
  /\ conn.calls[c].pc = "connecting"
  /\ conn' = [conn EXCEPT !.connected = @ \cup {conn.calls[c].local},
                          !.cachedClient = conn.calls[c].local,
                          !.cachedDb = conn.calls[c].local,
                          !.calls[c].pc = "returned",
                          !.calls[c].result = conn.calls[c].local]
  /\ UNCHANGED <<now, tokens, ttlIndex, domains, emails, issues, redeems,
                 verifies, admins, listed, fn, widget>>

\* verify-email.js lines 30-33: the catch logs and throws again
ConnectToDatabaseFail(c) ==
  /\ conn.calls[c].fn = "connectToDatabase"
  /\ conn.calls[c].pc = "connecting"
  /\ conn' = [conn EXCEPT !.calls[c].pc = "thrown"]
  /\ UNCHANGED <<now, tokens, ttlIndex, domains, emails, issues, redeems,
                 verifies, admins, listed, fn, widget>>

(***************************************************************************)
(* The press-and-hold widget (part_000 lines 115-141).  The button's       *)
(* mousedown and touchstart call startHolding, its mouseup, mouseleave,    *)
(* touchend and touchcancel call stopHolding (lines 24-29).  A timer fires *)
(* at its deadline or later, an animation frame at a later instant than    *)
(* the one that requested it.                                              *)
(***************************************************************************)
WidgetTick ==
  /\ widget.t + WidgetStep <= MaxT
  /\ widget' = [widget EXCEPT !.t = @ + WidgetStep]
  /\ UNCHANGED <<now, tokens, ttlIndex, domains, emails, issues, redeems,
                 verifies, admins, listed, fn, conn>>

\* clearTimeout(id) and cancelAnimationFrame(id): the pending callback with
\* that id goes, any other id does nothing
Cancel(pending, id) == {p \in pending : p.id # id}

StartHolding_keepTimer ==
  /\ widget.hold < MaxHolds
  /\ widget' = [widget EXCEPT
       !.timers = @ \cup {[id |-> widget.nextId + 1,
                            deadline |-> widget.t + HOLD_MS]},
       !.frames = Cancel(@, widget.animationRef)
                    \cup {[id |-> widget.nextId, start |-> widget.t,
                           at |-> widget.t]},
       !.animationRef = widget.nextId,
       !.timerRef = widget.nextId + 1,
       !.nextId = @ + 2,
       !.holding = TRUE, !.hold = @ + 1, !.since = widget.t]
  /\ UNCHANGED <<now, tokens, ttlIndex, domains, emails, issues, redeems,
                 verifies, admins, listed, fn, conn>>

\* lines 115-135: clear the stored timer and frame, request a frame for
\* updateProgress with startTime = Date.now(), set the 3000 ms timer
StartHolding ==
  /\ widget.hold < MaxHolds
  /\ widget' = [widget EXCEPT
       !.timers = Cancel(@, widget.timerRef)
                    \cup {[id |-> widget.nextId + 1,
                           deadline |-> widget.t + HOLD_MS]},
       !.frames = Cancel(@, widget.animationRef)
                    \cup {[id |-> widget.nextId, start |-> widget.t,
                           at |-> widget.t]},
       !.animationRef = widget.nextId,
       !.timerRef = widget.nextId + 1,
       !.nextId = @ + 2,
       !.holding = TRUE, !.hold = @ + 1, !.since = widget.t]
  /\ UNCHANGED <<now, tokens, ttlIndex, domains, emails, issues, redeems,
                 verifies, admins, listed, fn, conn>>

StopHolding_keepTimer ==
  /\ widget' = [widget EXCEPT
       !.frames = Cancel(@, widget.animationRef),
       !.progress = 0,
       !.holding = FALSE]
  /\ UNCHANGED <<now, tokens, ttlIndex, domains, emails, issues, redeems,
                 verifies, admins, listed, fn, conn>>

\* lines 137-141: clear the stored timer and frame, progress = 0
StopHolding ==
  /\ widget' = [widget EXCEPT
       !.timers = Cancel(@, widget.timerRef),
       !.frames = Cancel(@, widget.animationRef),
       !.progress = 0,
       !.holding = FALSE]
  /\ UNCHANGED <<now, tokens, ttlIndex, domains, emails, issues, redeems,
                 verifies, admins, listed, fn, conn>>

\* line 123: Math.min((elapsed / 3000) * 100, 100), in whole percent
Progress(elapsed) ==
  IF (elapsed * 100) \div 3000 < 100 THEN (elapsed * 100) \div 3000 ELSE 100

\* lines 121-128: updateProgress runs as an animation frame and requests the
\* next one while progress is below 100
UpdateProgress(f) ==
  /\ f \in widget.frames
  /\ f.at < widget.t
  /\ LET p == Progress(widget.t - f.start) IN
       widget' = [widget EXCEPT
         !.progress = p,
         !.frames = IF p < 100
                    THEN (@ \ {f}) \cup {[id |-> widget.nextId,
                                           start |-> f.start, at |-> widget.t]}
                    ELSE @ \ {f},
         !.animationRef = IF p < 100 THEN widget.nextId ELSE @,
         !.nextId = IF p < 100 THEN @ + 1 ELSE @]
  /\ UNCHANGED <<now, tokens, ttlIndex, domains, emails, issues, redeems,
                 verifies, admins, listed, fn, conn>>

\* lines 132-134: the timer's callback, this.$emit('verification-complete')
TimerFire(tm) ==
  /\ tm \in widget.timers
  /\ widget.t >= tm.deadline
  /\ widget' = [widget EXCEPT
       !.timers = @ \ {tm},
       !.emitted = Append(@, [at |-> widget.t, hold |-> widget.hold,
                              since |-> widget.since,
                              holding |-> widget.holding])]
  /\ UNCHANGED <<now, tokens, ttlIndex, domains, emails, issues, redeems,
                 verifies, admins, listed, fn, conn>>

(***************************************************************************)
(* The system.                                                             *)
(***************************************************************************)
Next ==
  \/ Tick
  \/ Sweep
  \/ TotalReqs < MaxReqs /\ \E tok \in TokenInputs : IssueStart(tok)
  \/ \E i \in 1..Len(issues) : IssueInsert(i)
  \/ \E i \in 1..Len(issues) : IssueIndex(i)
  \/ TotalReqs < MaxReqs /\ \E tok \in TokenInputs : RedeemStart(tok)
  \/ \E r \in 1..Len(redeems) : RedeemFind(r)
  \/ \E r \in 1..Len(redeems) : RedeemDelete(r)
  \/ \E r \in 1..Len(redeems) : RedeemSign(r)
  \/ TotalReqs < MaxReqs /\ \E email \in Emails : VerifyStart(email)
  \/ \E k \in 1..Len(verifies) : VerifyLog(k)
  \/ \E k \in 1..Len(verifies) : VerifyCheck(k)

Spec == Init /\ [][Next]_vars

(***************************************************************************)
(* The token lifecycle alone: issue and redeem requests, the clock and the *)
(* TTL sweep, with room for two requests of each kind.                     *)
(***************************************************************************)
NextTokens ==
  \/ Tick
  \/ Sweep
  \/ TotalReqs < MaxTokenReqs /\ \E tok \in TokenInputs : IssueStart(tok)
  \/ \E i \in 1..Len(issues) : IssueInsert(i)
  \/ \E i \in 1..Len(issues) : IssueIndex(i)
  \/ TotalReqs < MaxTokenReqs /\ \E tok \in TokenInputs : RedeemStart(tok)
  \/ \E r \in 1..Len(redeems) : RedeemFind(r)
  \/ \E r \in 1..Len(redeems) : RedeemDelete(r)
  \/ \E r \in 1..Len(redeems) : RedeemSign(r)

SpecTokens == Init /\ [][NextTokens]_vars

(***************************************************************************)
(* The validate route with a store that may fail under isDomainAllowed.    *)
(***************************************************************************)
NextGateFail ==
  \/ \E email \in Emails : VerifyStart(email)
  \/ \E k \in 1..Len(verifies) : VerifyLog(k)
  \/ \E k \in 1..Len(verifies) : VerifyCheck(k)
  \/ \E k \in 1..Len(verifies) : VerifyCheckFail(k)

SpecGateFail == Init /\ [][NextGateFail]_vars

(***************************************************************************)
(* The validate route with a store that may fail under logEmail.  A log    *)
(* write that never completes is a request that stays at its await: no     *)
(* step of it is forced.                                                   *)
(***************************************************************************)
NextLogFail ==
  \/ \E email \in Emails : VerifyStart(email)
  \/ \E k \in 1..Len(verifies) : VerifyLog(k)
  \/ \E k \in 1..Len(verifies) : VerifyLogFail(k)
  \/ \E k \in 1..Len(verifies) : VerifyCheck(k)

SpecLogFail == Init /\ [][NextLogFail]_vars

(***************************************************************************)
(* The resolver on its own: any email of PureEmails is submitted, checked  *)
(* and, when it passes, resolved.                                          *)
(***************************************************************************)
InitPure ==
  /\ now = 0
  /\ tokens = <<>>
  /\ ttlIndex = FALSE
  /\ domains = <<>>
  /\ emails = <<>>
  /\ issues = <<>>
  /\ redeems = <<>>
  /\ verifies = <<>>
  /\ admins = <<>>
  /\ listed = {}
  /\ conn = ConnInit
  /\ widget = WidgetInit
  /\ \E email \in PureEmails :
       \E type \in BodyTypes(email) :
         fn = [type |-> type, email |-> email, state |-> "input",
               domain |-> <<>>, url |-> <<>>]

NextPure == FormatCheck \/ ExtractDomain \/ Resolve

SpecPure == InitPure /\ [][NextPure]_vars

(***************************************************************************)
(* The allowlist: the administrator's requests and validations side by    *)
(* side.  Requests without the admin token are in SpecAdmin.               *)
(***************************************************************************)
DomainReqs == Len(admins) + Len(verifies)

NextDomains ==
  \/ DomainReqs < MaxDomainReqs /\
       \E d \in AdminDomains : AddDomainStart(ADMIN_TOKEN, d)
  \/ \E a \in 1..Len(admins) : AddDomainFind(a)
  \/ \E a \in 1..Len(admins) : AddDomainInsert(a)
  \/ DomainReqs < MaxDomainReqs /\
       \E d \in AdminDomains : DeleteDomainStart(ADMIN_TOKEN, d)
  \/ \E a \in 1..Len(admins) : DeleteDomainRun(a)
  \/ DomainReqs < MaxDomainReqs /\
       \E l \in DomainLists : BulkDeleteStart(ADMIN_TOKEN, l)
  \/ \E a \in 1..Len(admins) : BulkDeleteRun(a)
  \/ DomainReqs < MaxDomainReqs /\ DeleteAllStart(ADMIN_TOKEN)
  \/ \E a \in 1..Len(admins) : DeleteAllCount(a)
  \/ \E a \in 1..Len(admins) : DeleteAllRun(a)
  \/ DomainReqs < MaxDomainReqs /\
       \E c \in Contents : UploadStart(ADMIN_TOKEN, c)
  \/ \E a \in 1..Len(admins) : UploadFind(a)
  \/ \E a \in 1..Len(admins) : UploadInsert(a)
  \/ DomainReqs < MaxDomainReqs /\ \E email \in Emails : VerifyStart(email)
  \/ \E k \in 1..Len(verifies) : VerifyLog(k)
  \/ \E k \in 1..Len(verifies) : VerifyCheck(k)

SpecDomains == Init /\ [][NextDomains]_vars

(***************************************************************************)
(* Every administrative route, with and without the admin token, on an     *)
(* allowlist and an email log that earlier requests may have filled.       *)
(***************************************************************************)
InitEmails == {<<>>, <<EmailEntry(1, EmailUp), EmailEntry(2, EmailB)>>}

InitAdmin ==
  /\ now = 0
  /\ tokens = <<>>
  /\ ttlIndex = FALSE
  /\ domains \in InitDomains
  /\ emails \in InitEmails
  /\ issues = <<>>
  /\ redeems = <<>>
  /\ verifies = <<>>
  /\ admins = <<>>
  /\ listed = {domains[i] : i \in 1..Len(domains)}
  /\ fn = FnIdle
  /\ conn = ConnInit
  /\ widget = WidgetInit

NextAdmin ==
  \/ \E tok \in AdminTokens : \E view \in Views : AdminViewStart(tok, view)
  \/ \E a \in 1..Len(admins) : AdminViewCount(a)
  \/ \E a \in 1..Len(admins) : AdminViewFind(a)
  \/ \E tok \in AdminTokens : UploadForm(tok)
  \/ \E tok \in AdminTokens : \E c \in Contents : UploadStart(tok, c)
  \/ \E a \in 1..Len(admins) : UploadFind(a)
  \/ \E a \in 1..Len(admins) : UploadInsert(a)
  \/ \E tok \in AdminTokens : \E d \in AdminDomains : AddDomainStart(tok, d)
  \/ \E a \in 1..Len(admins) : AddDomainFind(a)
  \/ \E a \in 1..Len(admins) : AddDomainInsert(a)
  \/ \E tok \in AdminTokens : \E d \in AdminDomains : DeleteDomainStart(tok, d)
  \/ \E a \in 1..Len(admins) : DeleteDomainRun(a)
  \/ \E tok \in AdminTokens : \E l \in DomainLists : BulkDeleteStart(tok, l)
  \/ \E a \in 1..Len(admins) : BulkDeleteRun(a)
  \/ \E tok \in AdminTokens : DeleteAllStart(tok)
  \/ \E a \in 1..Len(admins) : DeleteAllCount(a)
  \/ \E a \in 1..Len(admins) : DeleteAllRun(a)
  \/ \E tok \in AdminTokens : \E id \in EmailIds : DeleteEmailStart(tok, id)
  \/ \E a \in 1..Len(admins) : DeleteEmailRun(a)
  \/ \E tok \in AdminTokens : \E ids \in IdLists : BulkDeleteEmailStart(tok, ids)
  \/ \E a \in 1..Len(admins) : BulkDeleteEmailRun(a)
  \/ \E tok \in AdminTokens : DeleteAllEmailsStart(tok)
  \/ \E a \in 1..Len(admins) : DeleteAllEmailsCount(a)
  \/ \E a \in 1..Len(admins) : DeleteAllEmailsRun(a)

SpecAdmin == InitAdmin /\ [][NextAdmin]_vars

(***************************************************************************)
(* File uploads whose store operations may fail, next to single additions. *)
(***************************************************************************)
NextUploadFail ==
  \/ \E c \in Contents : UploadStart(ADMIN_TOKEN, c)
  \/ \E a \in 1..Len(admins) : UploadFind(a)
  \/ \E a \in 1..Len(admins) : UploadInsert(a)
  \/ \E a \in 1..Len(admins) : UploadFindFail(a)
  \/ \E a \in 1..Len(admins) : UploadInsertFail(a)
  \/ \E a \in 1..Len(admins) : UploadFallbackFind(a)
  \/ \E a \in 1..Len(admins) : UploadFallbackInsert(a)
  \/ \E a \in 1..Len(admins) : UploadFallbackFail(a)
  \/ \E d \in AdminDomains : AddDomainStart(ADMIN_TOKEN, d)
  \/ \E a \in 1..Len(admins) : AddDomainFind(a)
  \/ \E a \in 1..Len(admins) : AddDomainInsert(a)

SpecUploadFail == Init /\ [][NextUploadFail]_vars

(***************************************************************************)
(* The widget under any sequence of presses, releases and callbacks.       *)
(***************************************************************************)
NextWidget ==
  \/ WidgetTick
  \/ StartHolding
  \/ StopHolding
  \/ \E f \in widget.frames : UpdateProgress(f)
  \/ \E tm \in widget.timers : TimerFire(tm)

SpecWidget == Init /\ [][NextWidget]_vars

(***************************************************************************)
(* The connection caches under concurrent calls and failing connects.      *)
(***************************************************************************)
NextConnect ==
  \/ ConnectToDBStart
  \/ \E c \in 1..Len(conn.calls) : ConnectToDBDone(c)
  \/ \E c \in 1..Len(conn.calls) : ConnectToDBFail(c)
  \/ ConnectToDatabaseStart
  \/ \E c \in 1..Len(conn.calls) : ConnectToDatabaseDone(c)
  \/ \E c \in 1..Len(conn.calls) : ConnectToDatabaseFail(c)

SpecConnect == Init /\ [][NextConnect]_vars

(***************************************************************************)
(* The token lifecycle of one client at a time: the issue requests come    *)
(* before any redeem request, and a redeem request is sent when the one    *)
(* before it has been answered.                                            *)
(***************************************************************************)
AllIssuesDone == \A i \in 1..Len(issues) : issues[i].pc = "done"

AllRedeemsDone == \A r \in 1..Len(redeems) : redeems[r].pc = "done"

NextSequential ==
  \/ Tick
  \/ Sweep
  \/ TotalReqs < MaxTokenReqs /\ redeems = <<>> /\
       \E tok \in TokenInputs : IssueStart(tok)
  \/ \E i \in 1..Len(issues) : IssueInsert(i)
  \/ \E i \in 1..Len(issues) : IssueIndex(i)
  \/ TotalReqs < MaxTokenReqs /\ AllIssuesDone /\ AllRedeemsDone /\
       \E tok \in TokenInputs : RedeemStart(tok)
  \/ \E r \in 1..Len(redeems) : RedeemFind(r)
  \/ \E r \in 1..Len(redeems) : RedeemDelete(r)
  \/ \E r \in 1..Len(redeems) : RedeemSign(r)

SpecSequential == Init /\ [][NextSequential]_vars

(***************************************************************************)
(* The token lifecycle with a store and a signer that may fail under the   *)
(* redeem handler, at any of its awaits.                                   *)
(***************************************************************************)
NextRedeemFail ==
  \/ Tick
  \/ Sweep
  \/ TotalReqs < MaxReqs /\ \E tok \in TokenInputs : IssueStart(tok)
  \/ \E i \in 1..Len(issues) : IssueInsert(i)
  \/ \E i \in 1..Len(issues) : IssueIndex(i)
  \/ TotalReqs < MaxReqs /\ \E tok \in TokenInputs : RedeemStart(tok)
  \/ \E r \in 1..Len(redeems) : RedeemFind(r)
  \/ \E r \in 1..Len(redeems) : RedeemFindFail(r)
  \/ \E r \in 1..Len(redeems) : RedeemDelete(r)
  \/ \E r \in 1..Len(redeems) : RedeemDeleteFail(r)
  \/ \E r \in 1..Len(redeems) : RedeemSign(r)
  \/ \E r \in 1..Len(redeems) : RedeemSignFail(r)

SpecRedeemFail == Init /\ [][NextRedeemFail]_vars

(***************************************************************************)
(* The token lifecycle with progress: the clock keeps advancing up to      *)
(* MaxNow, the TTL monitor keeps sweeping while an expired record is in    *)
(* an indexed collection, and the store answers the calls of the issue     *)
(* handler.  Nothing forces a client to send a request.                    *)
(***************************************************************************)
NextLive ==
  \/ Tick
  \/ Sweep
  \/ TotalReqs < MaxLiveReqs /\ \E tok \in TokenInputs : IssueStart(tok)
  \/ \E i \in 1..Len(issues) : IssueInsert(i)
  \/ \E i \in 1..Len(issues) : IssueIndex(i)
  \/ TotalReqs < MaxLiveReqs /\ \E tok \in TokenInputs : RedeemStart(tok)
  \/ \E r \in 1..Len(redeems) : RedeemFind(r)
  \/ \E r \in 1..Len(redeems) : RedeemDelete(r)
  \/ \E r \in 1..Len(redeems) : RedeemSign(r)

SpecLive ==
  /\ Init
  /\ [][NextLive]_vars
  /\ WF_vars(Tick)
  /\ WF_vars(Sweep)
  /\ WF_vars(\E i \in 1..Len(issues) : IssueInsert(i))
  /\ WF_vars(\E i \in 1..Len(issues) : IssueIndex(i))

(***************************************************************************)
(* The token lifecycle with a store that may fail under the issue handler. *)
(***************************************************************************)
NextIssueFail ==
  \/ Tick
  \/ Sweep
  \/ TotalReqs < MaxReqs /\ \E tok \in TokenInputs : IssueStart(tok)
  \/ \E i \in 1..Len(issues) : IssueInsert(i)
  \/ \E i \in 1..Len(issues) : IssueInsertFail(i)
  \/ \E i \in 1..Len(issues) : IssueIndex(i)
  \/ \E i \in 1..Len(issues) : IssueIndexFail(i)
  \/ TotalReqs < MaxReqs /\ \E tok \in TokenInputs : RedeemStart(tok)
  \/ \E r \in 1..Len(redeems) : RedeemFind(r)
  \/ \E r \in 1..Len(redeems) : RedeemDelete(r)
  \/ \E r \in 1..Len(redeems) : RedeemSign(r)

SpecIssueFail == Init /\ [][NextIssueFail]_vars

(***************************************************************************)
(* The token lifecycle with a signer that may fail.                        *)
(***************************************************************************)
NextSignFail ==
  \/ Tick
  \/ Sweep
  \/ TotalReqs < MaxReqs /\ \E tok \in TokenInputs : IssueStart(tok)
  \/ \E i \in 1..Len(issues) : IssueInsert(i)
  \/ \E i \in 1..Len(issues) : IssueIndex(i)
  \/ TotalReqs < MaxReqs /\ \E tok \in TokenInputs : RedeemStart(tok)
  \/ \E r \in 1..Len(redeems) : RedeemFind(r)
  \/ \E r \in 1..Len(redeems) : RedeemDelete(r)
  \/ \E r \in 1..Len(redeems) : RedeemSign(r)
  \/ \E r \in 1..Len(redeems) : RedeemSignFail(r)

SpecSignFail == Init /\ [][NextSignFail]_vars

(***************************************************************************)
(* Type correctness.                                                       *)
(***************************************************************************)
TypeOK ==
  /\ now \in 0..MaxNow
  /\ ttlIndex \in BOOLEAN
  /\ \A i \in 1..Len(tokens) : tokens[i].token \in Values
  /\ \A i \in 1..Len(issues) : issues[i].status \in {0, 204, 400, 500}
  /\ \A r \in 1..Len(redeems) : redeems[r].status \in {0, 302, 400, 403, 500}
  /\ \A k \in 1..Len(verifies) : verifies[k].status \in {0, 200, 400}
  /\ \A a \in 1..Len(admins) : admins[a].status \in {0, 200, 400, 401}
  /\ \A i \in 1..Len(domains) : domains[i] \in Seq(STRING)

(***************************************************************************)
(* Derived quantities used by the properties.                              *)
(***************************************************************************)
\* issue requests whose insertOne for value v has been executed
Issued(v) ==
  {i \in 1..Len(issues) :
     issues[i].token = v /\ issues[i].ops # <<>>
                         /\ issues[i].ops[1] = "insertOne"}

Records(v) == Matches(tokens, v)

LiveRecords(v) == {i \in Records(v) : tokens[i].expireAt > now}

RedeemedOk(v) ==
  {r \in 1..Len(redeems) : redeems[r].token = v /\ redeems[r].status = 302}

BadEmail(email) == email = NoEmail \/ ~emailRegex(email)

(***************************************************************************)
(* C1: a token value issued exactly once is never redeemed successfully    *)
(* by two redeem requests, however their store operations interleave.      *)
(* download.js reads with findOne and deletes with a separate deleteOne,   *)
(* and two requests can both read before either deletes.                   *)
(***************************************************************************)
C1_NoDoubleSpend ==
  \A v \in Values :
    Cardinality(Issued(v)) = 1 => Cardinality(RedeemedOk(v)) <= 1

(***************************************************************************)
(* C2: for a value issued exactly once, a redeem request that arrives      *)
(* after a redeem of that value has been answered 302 is answered 403 and  *)
(* gets no signed URL.                                                     *)
(***************************************************************************)
C2_LaterRedeemRejected ==
  \A r \in 1..Len(redeems) :
    ( /\ redeems[r].pc = "done"
      /\ "redeemed" \in redeems[r].seen
      /\ Cardinality(Issued(redeems[r].token)) = 1 )
    => redeems[r].status = 403 /\ redeems[r].location = <<>>

C2_Witness ==
  \E r \in 1..Len(redeems) :
    /\ redeems[r].pc = "done"
    /\ "redeemed" \in redeems[r].seen
    /\ Cardinality(Issued(redeems[r].token)) = 1
    /\ redeems[r].status = 403

(***************************************************************************)
(* C3: a redeem request that arrives later than the expireAt of the token  *)
(* record is rejected, swept or not: no request is answered 302 on a       *)
(* record whose expireAt lies before the request's arrival.                *)
(***************************************************************************)
C3_ExpiredRedeemRejected ==
  \A r \in 1..Len(redeems) :
    (redeems[r].pc = "done" /\ redeems[r].found # <<>>
       /\ redeems[r].at > redeems[r].found[1].expireAt)
    => redeems[r].status = 403 /\ redeems[r].location = <<>>

(***************************************************************************)
(* C4 as stated: at most one live (not expired, not consumed) record per   *)
(* token value in every reachable state.                                   *)
(***************************************************************************)
C4_AtMostOneLivePerValue ==
  \A v \in Values : Cardinality(LiveRecords(v)) <= 1

(***************************************************************************)
(* C4 as amended: the tokens collection never holds more records of a      *)
(* value than issue requests have inserted for it, so a value issued at    *)
(* most once has at most one live record.                                  *)
(***************************************************************************)
C4_RecordsAtMostIssued ==
  \A v \in Values : Cardinality(Records(v)) <= Cardinality(Issued(v))

C4_Witness ==
  \E v \in Values :
    Cardinality(LiveRecords(v)) = 2 /\ Cardinality(Issued(v)) = 2

(***************************************************************************)
(* C5: the redeem endpoint answers 400 without any store operation when    *)
(* the token parameter is missing; 403 after the lookup alone when the     *)
(* lookup finds no record; 302 with Location set to the signed URL when    *)
(* the lookup finds a record, and that record is then gone from tokens.    *)
(***************************************************************************)
C5_RedeemOutcomes ==
  \A r \in 1..Len(redeems) :
    LET q == redeems[r] IN
      /\ q.token = NoToken =>
           q.pc = "done" /\ q.status = 400 /\ q.ops = <<>> /\ q.location = <<>>
      /\ (q.pc = "done" /\ q.token # NoToken /\ q.found = <<>>) =>
           q.status = 403 /\ q.ops = <<"findOne">> /\ q.location = <<>>
      /\ (q.pc = "done" /\ q.found # <<>>) =>
           /\ q.status = 302
           /\ Len(q.location) = 1
           /\ q.location[1].key = "Acrobat_Reader_V112.msi"
           /\ q.location[1].expiresIn = 60
           /\ q.ops = <<"findOne", "deleteOne", "getSignedUrl">>
           /\ \A i \in 1..Len(tokens) : tokens[i].id # q.found[1].id

C5_Witness ==
  /\ \E r \in 1..Len(redeems) : redeems[r].status = 302
  /\ \E r \in 1..Len(redeems) : redeems[r].status = 403

(***************************************************************************)
(* C6: the insert of an issue request for value v appends exactly one      *)
(* record to tokens, for v, created now and expiring 60 seconds after its  *)
(* creation, and keeps every other record; the rest of the request leaves  *)
(* tokens alone and answers 204.                                           *)
(***************************************************************************)
C6_IssueAddsOneRecord ==
  [][\A i \in 1..Len(issues) :
       /\ (issues[i].pc = "insert" /\ issues'[i].pc # "insert") =>
            /\ Len(tokens') = Len(tokens) + 1
            /\ SubSeq(tokens', 1, Len(tokens)) = tokens
            /\ tokens'[Len(tokens')].token = issues[i].token
            /\ tokens'[Len(tokens')].createdAt = now
            /\ tokens'[Len(tokens')].expireAt = now + 60 * 1000
       /\ (issues[i].pc = "index" /\ issues'[i].pc # "index") =>
            /\ tokens' = tokens
            /\ issues'[i].pc = "done"
            /\ issues'[i].status = 204]_vars

C6_Witness ==
  \E i \in 1..Len(issues) :
    /\ issues[i].status = 204
    /\ Len(tokens) = 2
    /\ tokens[2].id = i
    /\ tokens[2].expireAt = tokens[2].createdAt + 60 * 1000
    /\ tokens[1].token # tokens[2].token

(***************************************************************************)
(* C7: a token is consumed only after an email validation has been         *)
(* accepted by the domain gate.  The handlers carry no session, so the     *)
(* property is stated for any validation at all: whenever a redeem         *)
(* request deletes a token record, some validation has been answered 200.  *)
(***************************************************************************)
C7_ConsumeOnlyAfterAccepted ==
  [][\A r \in 1..Len(redeems) :
       (redeems[r].pc = "delete" /\ redeems'[r].pc = "sign"
          /\ Len(tokens') < Len(tokens))
       => \E k \in 1..Len(verifies) : verifies[k].status = 200]_vars

(***************************************************************************)
(* C8: with no token record to consume, no URL is produced.  A validation  *)
(* produces a redirect URL only while tokens holds a record (whichever     *)
(* value the flow uses, an empty collection has none for it), and a redeem *)
(* request produces a signed URL only when its lookup found a record.      *)
(***************************************************************************)
C8_NoUrlWithoutToken ==
  [][/\ \A k \in 1..Len(verifies) :
          (verifies[k].redirectUrl = <<>> /\ verifies'[k].redirectUrl # <<>>)
          => tokens # <<>>
     /\ \A r \in 1..Len(redeems) :
          (redeems[r].location = <<>> /\ redeems'[r].location # <<>>)
          => redeems[r].found # <<>>]_vars

(***************************************************************************)
(* C9: no step of an email validation, a rejected one included, changes    *)
(* the tokens collection; a token live before a rejection is still there   *)
(* and can be redeemed.                                                    *)
(***************************************************************************)
C9_ValidationKeepsTokens ==
  [][verifies' # verifies => tokens' = tokens]_vars

C9_Witness ==
  \E r \in 1..Len(redeems) :
    /\ "rejected" \in redeems[r].seen
    /\ redeems[r].status = 302
    /\ RejectedBefore

(***************************************************************************)
(* C10: a validation request whose email is missing or fails the format    *)
(* check is answered 400 at once, having made no store operation; nothing  *)
(* of it reaches the email log.                                            *)
(***************************************************************************)
C10_BadEmailNoStoreAccess ==
  /\ \A k \in 1..Len(verifies) :
       BadEmail(verifies[k].email) =>
         /\ verifies[k].pc = "done"
         /\ verifies[k].status = 400
         /\ verifies[k].ops = <<>>
         /\ verifies[k].redirectUrl = <<>>
  /\ \A e \in 1..Len(emails) : ~BadEmail(emails[e].email)

C10_Witness ==
  /\ \E k \in 1..Len(verifies) :
       verifies[k].email = NoEmail /\ verifies[k].status = 400
  /\ \E k \in 1..Len(verifies) :
       verifies[k].email # NoEmail /\ ~emailRegex(verifies[k].email)
         /\ verifies[k].status = 400

(***************************************************************************)
(* C11: every answered validation is one of three: 400 when the email is   *)
(* malformed; 400 with the one fixed message, the same for every allowlist *)
(* and every submitted domain, when the email is well formed and its       *)
(* domain is not on the allowlist; 200 with success = true and             *)
(* redirectUrl = generateRedirectUrl(email) when the domain is on it.      *)
(***************************************************************************)
C11_ValidateOutcomes ==
  \A k \in 1..Len(verifies) :
    verifies[k].pc = "done" /\ verifies[k].email # NoEmail =>
      LET email == verifies[k].email IN
        IF ~emailRegex(email)
        THEN verifies[k].status = 400 /\ ~verifies[k].success
        ELSE IF ~isDomainAllowed(domains, getDomainFromEmail(email))
        THEN /\ verifies[k].status = 400
             /\ verifies[k].message = MSG_NOT_ALLOWED
             /\ ~verifies[k].success
             /\ verifies[k].redirectUrl = <<>>
        ELSE /\ verifies[k].status = 200
             /\ verifies[k].success
             /\ verifies[k].redirectUrl = generateRedirectUrl(email)

\* one email accepted with its resolved URL, another rejected by the gate
C11_Witness ==
  /\ \E k \in 1..Len(verifies) :
       /\ verifies[k].email = EmailUp
       /\ verifies[k].status = 200
       /\ verifies[k].success
       /\ verifies[k].redirectUrl =
            <<"h","t","t","p","s",":","/","/","a",".",
              "e","x","a","m","p","l","e",".","n","e","t","/","x","?","e","=",
              "u","@","A",".","c","o">>
  /\ \E k \in 1..Len(verifies) :
       /\ verifies[k].email = EmailB
       /\ verifies[k].status = 400
       /\ verifies[k].message = MSG_NOT_ALLOWED

(***************************************************************************)
(* C20: a consumed value stays dead.  A redeem request that arrives after  *)
(* a redeem of the same value has been answered 302 is answered 403 with   *)
(* no signed URL, whatever requests came in between, issue requests of the *)
(* same value included.  (The other half of the claim, a value whose       *)
(* expireAt has passed, is the property of C3.)                            *)
(***************************************************************************)
C20_ConsumedStaysDead ==
  \A r \in 1..Len(redeems) :
    ( /\ redeems[r].pc = "done"
      /\ redeems[r].token # NoToken
      /\ "redeemed" \in redeems[r].seen )
    => redeems[r].status = 403 /\ redeems[r].location = <<>>

(***************************************************************************)
(* C19: a redeem request whose signing fails after its deleteOne leaves    *)
(* the token consumed: it is not answered 302 and carries no URL, the      *)
(* record it found is not in tokens again, and a redeem of the same value  *)
(* (issued once) that arrives after the failure is answered 403.           *)
(***************************************************************************)
C19_SignFailureKeepsConsumed ==
  /\ \A r \in 1..Len(redeems) :
       (redeems[r].ops # <<>>
          /\ redeems[r].ops[Len(redeems[r].ops)] = "getSignedUrl!")
       => /\ redeems[r].status # 302
          /\ redeems[r].location = <<>>
          /\ \A i \in 1..Len(tokens) : tokens[i].id # redeems[r].found[1].id
  /\ \A r \in 1..Len(redeems) :
       ( /\ redeems[r].pc = "done"
         /\ "unsigned" \in redeems[r].seen
         /\ Cardinality(Issued(redeems[r].token)) = 1 )
       => redeems[r].status = 403 /\ redeems[r].location = <<>>

C19_Witness ==
  \E r \in 1..Len(redeems) : \E q \in 1..Len(redeems) :
    /\ redeems[r].ops = <<"findOne", "deleteOne", "getSignedUrl!">>
    /\ redeems[q].token = redeems[r].token
    /\ "unsigned" \in redeems[q].seen
    /\ redeems[q].status = 403

(***************************************************************************)
(* C12: isDomainAllowed fails closed.  A validation whose domain check     *)
(* met a store error (on connecting or on the lookup) is answered as not   *)
(* allowed, whatever its domain; and a validation is accepted only when    *)
(* its lookup completed and a record of its lower-cased domain is stored.  *)
(***************************************************************************)
C12_GateFailsClosed ==
  \A k \in 1..Len(verifies) :
    LET ops == verifies[k].ops IN
      /\ (ops # <<>> /\ ops[Len(ops)] \in StoreFailures)
         => /\ verifies[k].status = 400
            /\ verifies[k].message = MSG_NOT_ALLOWED
            /\ ~verifies[k].success
            /\ verifies[k].redirectUrl = <<>>
      /\ (verifies[k].status = 200 \/ verifies[k].success)
         => /\ ops # <<>> /\ ops[Len(ops)] = "findOne"
            /\ \E i \in 1..Len(domains) :
                 domains[i] = toLowerCase(getDomainFromEmail(verifies[k].email))

\* a listed domain refused because the lookup failed, next to one accepted
C12_Witness ==
  /\ \E k \in 1..Len(verifies) :
       /\ verifies[k].email = EmailUp
       /\ verifies[k].ops = <<"insertOne", "findOne!">>
       /\ verifies[k].status = 400
       /\ isDomainAllowed(domains, getDomainFromEmail(EmailUp))
  /\ \E k \in 1..Len(verifies) :
       verifies[k].email = EmailUp /\ verifies[k].status = 200

(***************************************************************************)
(* C16: the validation response does not wait for the email-log write.     *)
(* While the log write of a well-formed request is still outstanding, the  *)
(* step that makes the domain check and answers the request can be taken:  *)
(* the answer is sent even if the write never completes.                   *)
(***************************************************************************)
C16_ResponseNotBehindLog ==
  \A k \in 1..Len(verifies) :
    verifies[k].pc = "log" => ENABLED VerifyCheck(k)

(***************************************************************************)
(* C17: the resolved URL is the template with {domain} replaced by the     *)
(* base label of the email's lower-cased domain: the second-to-last        *)
(* dot-separated label when the domain has more than one label, the whole  *)
(* domain otherwise.  With the template https://{domain}.example.net/x?e=  *)
(* {email} the URL begins with https://, the base label and                *)
(* .example.net/x?e= .                                                     *)
(***************************************************************************)
C17_DomainPlaceholderIsBaseLabel ==
  fn.state = "done" =>
    LET domain    == toLowerCase(split(fn.email, "@")[2])
        labels    == split(domain, ".")
        baseLabel == IF Len(labels) > 1 THEN labels[Len(labels) - 1]
                     ELSE domain
        at        == indexOf(REDIRECT_URL, PH_DOMAIN)
        head      == SubSeq(REDIRECT_URL, 1, at - 1)
        rest      == SubSeq(REDIRECT_URL, at + Len(PH_DOMAIN),
                            indexOf(REDIRECT_URL, PH_EMAIL) - 1)
        expected  == head \o baseLabel \o rest
    IN SubSeq(fn.url, 1, Len(expected)) = expected

(***************************************************************************)
(* C18: for an email that passed the format check the resolved URL is the  *)
(* template with the base label written where {domain} stood and the       *)
(* email, character for character, where {email} stood; nothing inside     *)
(* the email or the label changes what is inserted or where.               *)
(***************************************************************************)
C18_SubstitutionIsLiteral ==
  fn.state = "done" =>
    LET atD  == indexOf(REDIRECT_URL, PH_DOMAIN)
        atE  == indexOf(REDIRECT_URL, PH_EMAIL)
        head == SubSeq(REDIRECT_URL, 1, atD - 1)
        mid  == SubSeq(REDIRECT_URL, atD + Len(PH_DOMAIN), atE - 1)
        tail == SubSeq(REDIRECT_URL, atE + Len(PH_EMAIL), Len(REDIRECT_URL))
    IN fn.url = head \o generateCleanDomainFromEmail(fn.email) \o mid
                  \o fn.email \o tail

(***************************************************************************)
(* C13: the membership test is case-insensitive and exact.  In every       *)
(* reachable state of the allowlist and for every domain string d,         *)
(* isDomainAllowed(d) = isDomainAllowed(lowercase(d)), and it is true      *)
(* exactly when lowercase(d) was added and has not been removed since.     *)
(***************************************************************************)
C13_MembershipFollowsAddRemove ==
  \A d \in AdminDomains \cup {DomainA} :
    /\ isDomainAllowed(domains, d) = isDomainAllowed(domains, toLowerCase(d))
    /\ isDomainAllowed(domains, d) <=> toLowerCase(d) \in listed

(***************************************************************************)
(* C14: in every reachable state every allowed-domain record holds a       *)
(* lower-case domain and no two records hold the same domain.              *)
(***************************************************************************)
C14_DomainsLowercaseAndUnique ==
  /\ \A i \in 1..Len(domains) : domains[i] = toLowerCase(domains[i])
  /\ \A i \in 1..Len(domains) : \A j \in 1..Len(domains) :
       domains[i] = domains[j] => i = j

(***************************************************************************)
(* C15: the gate reads the store on every check.  A validation whose       *)
(* domain check runs while the domain is listed (its addDomain has         *)
(* answered success and no removal has answered since) is accepted, and a  *)
(* check is accepted only on a record that is in the store at that moment. *)
(***************************************************************************)
C15_AddedDomainSeenByNextCheck ==
  [][\A k \in 1..Len(verifies) :
       (verifies[k].pc = "check" /\ verifies'[k].pc = "done") =>
         LET domain == getDomainFromEmail(verifies[k].email) IN
           /\ toLowerCase(domain) \in listed => verifies'[k].status = 200
           /\ verifies'[k].status = 200 =>
                \E i \in 1..Len(domains) : domains[i] = toLowerCase(domain)]_vars

\* an addDomain answered "added", and a validation of that domain accepted
C15_Witness ==
  /\ \E a \in 1..Len(admins) :
       /\ admins[a].op = "adddomain"
       /\ admins[a].arg = DomainB
       /\ admins[a].message = MSG_ADDED
  /\ \E k \in 1..Len(verifies) :
       verifies[k].email = EmailB /\ verifies[k].status = 200

(***************************************************************************)
(* C21: an issue request that failed on a store operation (it is answered  *)
(* neither 204 nor 400) has left no record: tokens holds no record that    *)
(* the failed request inserted.                                            *)
(***************************************************************************)
C21_FailedIssueLeavesNoRecord ==
  \A i \in 1..Len(issues) :
    (issues[i].pc = "done" /\ issues[i].status \notin {204, 400})
    => \A j \in 1..Len(tokens) : tokens[j].id # i

C23_IssuedNTimesRedeemedNTimes ==
  now < TTL_MS =>
    \A v \in Values :
      LET n       == Cardinality(Issued(v))
          Earlier(r) == {q \in 1..r : redeems[q].token = v}
          deleted == Cardinality({r \in 1..Len(redeems) :
                        redeems[r].token = v /\ "deleteOne" \in
                          {redeems[r].ops[x] : x \in 1..Len(redeems[r].ops)}})
      IN /\ Cardinality(Records(v)) = n - deleted
         /\ \A r \in 1..Len(redeems) :
              (redeems[r].token = v /\ redeems[r].pc = "done") =>
                IF Cardinality(Earlier(r)) <= n
                THEN redeems[r].status = 302
                ELSE redeems[r].status = 403

\* the same value issued twice, then redeemed twice
C23_Witness ==
  \E v \in Values :
    /\ Cardinality(Issued(v)) = 2
    /\ Cardinality(RedeemedOk(v)) = 2
    /\ Records(v) = {}
    /\ now < TTL_MS

(***************************************************************************)
(* C24: a redeem request makes each of its calls at most once, in the      *)
(* order find, delete, sign, and stops at the first failure: a failed      *)
(* call is the last call of the request, and the request is then answered  *)
(* without a 302 and without a signed URL.                                 *)
(***************************************************************************)
C24_NoRetryInRedeem ==
  \A r \in 1..Len(redeems) :
    LET ops       == redeems[r].ops
        Failed(x) == ops[x] \in {"connect!", "findOne!", "deleteOne!",
                                 "getSignedUrl!"}
        Calls(names) == Cardinality({x \in 1..Len(ops) : ops[x] \in names})
    IN /\ Calls({"connect!", "findOne", "findOne!"}) <= 1
       /\ Calls({"deleteOne", "deleteOne!"}) <= 1
       /\ Calls({"getSignedUrl", "getSignedUrl!"}) <= 1
       /\ Len(ops) <= 3
       /\ \A x \in 1..Len(ops) :
            Failed(x) => /\ x = Len(ops)
                         /\ redeems[r].pc = "done"
                         /\ redeems[r].status # 302
                         /\ redeems[r].location = <<>>

\* one request stopped by a failed delete, another by a failed lookup
C24_Witness ==
  /\ \E r \in 1..Len(redeems) :
       redeems[r].ops = <<"findOne", "deleteOne!">> /\ redeems[r].status = 500
  /\ \E r \in 1..Len(redeems) :
       redeems[r].ops = <<"findOne!">> /\ redeems[r].status = 500

(***************************************************************************)
(* C25: whatever the format check accepts has exactly one "@" followed by  *)
(* a non-empty domain with a dot in it, and getDomainFromEmail and         *)
(* generateCleanDomainFromEmail do not fail on it: the domain extracted    *)
(* is the lower-cased text after the "@", the clean domain its             *)
(* second-to-last label, and the validation never ends in the failure of   *)
(* the extraction.                                                         *)
(***************************************************************************)
C25_AcceptedEmailHasDomain ==
  fn.state \in {"passed", "checked", "done", "error"} =>
    LET ats   == {i \in 1..Len(fn.email) : fn.email[i] = "@"}
        at    == CHOOSE i \in ats : TRUE
        after == SubSeq(fn.email, at + 1, Len(fn.email))
    IN /\ Cardinality(ats) = 1
       /\ after # <<>>
       /\ \E i \in 1..Len(after) : after[i] = "."
       /\ fn.state # "error"
       /\ fn.state \in {"checked", "done"} =>
            /\ fn.domain = toLowerCase(after)
            /\ LET labels == split(toLowerCase(after), ".")
               IN generateCleanDomainFromEmail(fn.email)
                    = labels[Len(labels) - 1]

(***************************************************************************)
(* C26: each connection cache creates its client at most once, however    *)
(* the calls interleave and whether or not a connect failed before, and a  *)
(* db handle is returned only if it comes from a client whose connect      *)
(* succeeded.                                                              *)
(***************************************************************************)
C26_OneClientPerCache ==
  /\ \A f \in {"connectToDB", "connectToDatabase"} :
       Cardinality({c \in 1..Len(conn.calls) :
                      conn.calls[c].fn = f /\ conn.calls[c].local # 0}) <= 1
  /\ \A c \in 1..Len(conn.calls) :
       conn.calls[c].pc = "returned" => conn.calls[c].result \in conn.connected

(***************************************************************************)
(* C27: removal is immediate.  When deleteDomain(d) answers success, d is  *)
(* not allowed in the state it leaves; when it answers "Domain not found", *)
(* the allowed-domain collection is as it was.                             *)
(***************************************************************************)
C27_DeletedDomainNotAllowed ==
  [][\A a \in 1..Len(admins) :
       (admins[a].op = "deletedomain" /\ admins[a].pc = "delete"
          /\ admins'[a].pc = "done") =>
         /\ admins'[a].message = MSG_DELETED =>
              ~isDomainAllowed(domains', admins[a].arg)
         /\ admins'[a].message = MSG_NOT_FOUND => domains' = domains]_vars

(***************************************************************************)
(* C28: an administrative request that does not carry the admin token is   *)
(* answered 401 at once, and neither that step nor any later step of the   *)
(* request reads or changes the allowed-domain collection or the email     *)
(* log: the request performs no store operation.                           *)
(***************************************************************************)
C28_UnauthorizedTouchesNothing ==
  [][/\ \A a \in (Len(admins) + 1)..Len(admins') :
          admins'[a].token # ADMIN_TOKEN =>
            /\ admins'[a].status = 401
            /\ admins'[a].message = MSG_UNAUTHORIZED
            /\ admins'[a].pc = "done"
            /\ admins'[a].ops = <<>>
            /\ domains' = domains
            /\ emails' = emails
     /\ \A a \in 1..Len(admins) :
          admins[a].token # ADMIN_TOKEN => admins'[a] = admins[a]]_vars

\* a request to empty the allowlist and one to empty the email log, both
\* without the admin token, both answered 401 with records still stored
C28_Witness ==
  /\ domains # <<>>
  /\ emails # <<>>
  /\ \E a \in 1..Len(admins) :
       /\ admins[a].op = "deletealldomains"
       /\ admins[a].token = WRONG_TOKEN
       /\ admins[a].status = 401
  /\ \E a \in 1..Len(admins) :
       /\ admins[a].op = "deleteallemails"
       /\ admins[a].token = WRONG_TOKEN
       /\ admins[a].status = 401

(***************************************************************************)
(* C29: the upload counters add up.  Every result processDomainTextContent *)
(* returns has totalProcessed = added + skipped + failed, whether the      *)
(* domains went through the bulk insert or through the per-domain          *)
(* fallback, and totalProcessed is the number of non-blank lines of the    *)
(* uploaded content.                                                       *)
(***************************************************************************)
C29_UploadCountersAddUp ==
  \A a \in 1..Len(admins) :
    (admins[a].op = "upload" /\ admins[a].pc = "done"
       /\ admins[a].status = 200) =>
      LET results == admins[a].results
          NonBlank(line) == \E i \in 1..Len(line) : line[i] \notin Whitespace
      IN /\ results.totalProcessed
              = results.added + results.skipped + results.failed
         /\ results.totalProcessed
              = Len(SelectSeq(splitLines(admins[a].arg), NonBlank))

\* one upload answered through the bulk insert with a line refused, one
\* through the fallback with a domain added and its repetition skipped
C29_Witness ==
  /\ \E a \in 1..Len(admins) :
       /\ admins[a].op = "upload" /\ admins[a].pc = "done"
       /\ admins[a].ops = <<"find", "insertMany">>
       /\ admins[a].results.added = 1 /\ admins[a].results.failed = 1
  /\ \E a \in 1..Len(admins) :
       /\ admins[a].op = "upload" /\ admins[a].pc = "done"
       /\ admins[a].ops[1] = "find!"
       /\ admins[a].results.added = 1 /\ admins[a].results.skipped = 1

(***************************************************************************)
(* C30: the widget emits 'verification-complete' only for a hold that has  *)
(* lasted 3000 ms without a release, and at most once per hold.  Every     *)
(* emission happens while the button is held, at least HOLD_MS after the   *)
(* latest startHolding, and no two emissions belong to the same hold; at   *)
(* most one timer is pending; after a stopHolding, until the next          *)
(* startHolding, no timer and no frame is pending and progress is 0.       *)
(***************************************************************************)
C30_EmitOnlyAfterFullHold ==
  /\ \A e \in 1..Len(widget.emitted) :
       /\ widget.emitted[e].holding
       /\ widget.emitted[e].at - widget.emitted[e].since >= HOLD_MS
       /\ \A d \in 1..Len(widget.emitted) :
            widget.emitted[d].hold = widget.emitted[e].hold => d = e
  /\ Cardinality(widget.timers) <= 1
  /\ ~widget.holding =>
       widget.timers = {} /\ widget.frames = {} /\ widget.progress = 0

\* a first press that got no answer, then a second press held to its end
\* and answered once, the progress bar full
C30_Witness ==
  /\ widget.hold = 2
  /\ Len(widget.emitted) = 1
  /\ widget.emitted[1].hold = 2
  /\ widget.progress = 100

====
